---------------------------- MODULE Spec2Model ----------------------------
(***************************************************************************)
(* A model of the FASTag recharge flow: the four-step wizard               *)
(* (FastagRechargePage), its client-side API helpers, and the pre-enquiry  *)
(* proxy route.                                                            *)
(*                                                                         *)
(* JavaScript strings are sequences of one-character strings, so that      *)
(* toUpperCase, RegExp.test, String() and template literals are computed   *)
(* and not assumed.  A JSON value is a tagged record: undefined, null, a   *)
(* string, or an object (a function from field names to JSON values).      *)
(***************************************************************************)
EXTENDS Integers, Sequences, FiniteSets, Bags, TLC

\* String literals of the source, as sequences of characters.
sERR == <<"E", "R", "R">>
sIAN == <<"I", "A", "N">>
sINV == <<"I", "N", "V">>
sNF == <<"N", "F">>
sNA == <<"N", "A">>
sInvalid == <<"i", "n", "v", "a", "l", "i", "d">>
sError == <<"e", "r", "r", "o", "r">>
sFailed == <<"f", "a", "i", "l", "e", "d">>
sNotFound == <<"n", "o", "t", " ", "f", "o", "u", "n", "d">>
sUnavailable == <<"u", "n", "a", "v", "a", "i", "l", "a", "b", "l", "e">>
sAnErrorOccurred == <<"A", "n", " ", "e", "r", "r", "o", "r", " ", "o", "c", "c", "u", "r", "r", "e", "d">>
sFailedToFetchRechargeDetails == <<"F", "a", "i", "l", "e", "d", " ", "t", "o", " ", "f", "e", "t", "c", "h", " ", "r", "e", "c", "h", "a", "r", "g", "e", " ", "d", "e", "t", "a", "i", "l", "s">>
sInvalidRequest == <<"I", "n", "v", "a", "l", "i", "d", " ", "r", "e", "q", "u", "e", "s", "t">>
sRequestFailed == <<"R", "e", "q", "u", "e", "s", "t", " ", "f", "a", "i", "l", "e", "d">>
sRequiredFields == <<"b", "i", "l", "l", "e", "r", "I", "d", ",", " ", "i", "n", "p", "u", "t", "P", "a", "r", "a", "m", "e", "t", "e", "r", "s", ",", " ", "e", "x", "t", "e", "r", "n", "a", "l", "R", "e", "f", " ", "a", "r", "e", " ", "r", "e", "q", "u", "i", "r", "e", "d">>
sPleaseEnter == <<"P", "l", "e", "a", "s", "e", " ", "e", "n", "t", "e", "r", " ">>
sInvalidPrefix == <<"I", "n", "v", "a", "l", "i", "d", " ">>
sMustBeAtLeast == <<" ", "m", "u", "s", "t", " ", "b", "e", " ", "a", "t", " ", "l", "e", "a", "s", "t", " ">>
sCharacters == <<" ", "c", "h", "a", "r", "a", "c", "t", "e", "r", "s">>
sPleaseSelectPaymentMode == <<"P", "l", "e", "a", "s", "e", " ", "s", "e", "l", "e", "c", "t", " ", "a", " ", "p", "a", "y", "m", "e", "n", "t", " ", "m", "o", "d", "e">>
sLoadingDetailsForm == <<"L", "o", "a", "d", "i", "n", "g", " ", "F", "A", "S", "T", "a", "g", " ", "d", "e", "t", "a", "i", "l", "s", " ", "f", "o", "r", "m", ".", ".", ".">>
sFailedToLoadBillerDetails == <<"F", "a", "i", "l", "e", "d", " ", "t", "o", " ", "l", "o", "a", "d", " ", "b", "i", "l", "l", "e", "r", " ", "d", "e", "t", "a", "i", "l", "s">>
sSABPE == <<"S", "A", "B", "P", "E", "_">>
sUPI == <<"U", "P", "I">>
sInternetBanking == <<"I", "n", "t", "e", "r", "n", "e", "t", "_", "B", "a", "n", "k", "i", "n", "g">>
sDebitCard == <<"D", "e", "b", "i", "t", "_", "C", "a", "r", "d">>
sCreditCard == <<"C", "r", "e", "d", "i", "t", "_", "C", "a", "r", "d">>
sAccountTransfer == <<"A", "c", "c", "o", "u", "n", "t", "_", "T", "r", "a", "n", "s", "f", "e", "r">>
sNEFT == <<"N", "E", "F", "T">>
sBharatQR == <<"B", "h", "a", "r", "a", "t", "_", "Q", "R">>

\* What String(v) yields for the values that are not strings (ECMAScript ToString).
sObjectObject == <<"[", "o", "b", "j", "e", "c", "t", " ", "O", "b", "j", "e", "c", "t", "]">>
sUndefinedText == <<"u", "n", "d", "e", "f", "i", "n", "e", "d">>
sNullText == <<"n", "u", "l", "l">>

(***************************************************************************)
(* JavaScript values and operators.                                        *)
(***************************************************************************)
Undefined == [t |-> "undefined"]

JNull == [t |-> "null"]

JStr(s) == [t |-> "string", s |-> s]

JObj(f) == [t |-> "object", f |-> f]

\* A JSON number that is an integer.
JNum(n) == [t |-> "number", n |-> n]

JBool(b) == [t |-> "boolean", b |-> b]

\* A JSON array, its elements in order.
JArr(a) == [t |-> "array", a |-> a]

\* The empty object literal {}.
EmptyObj == [t |-> "object", f |-> <<>>]

\* ToBoolean: undefined, null, "", 0 and false are falsy; objects, arrays,
\* other strings and other numbers truthy.
Truthy(v) ==
    CASE v.t = "string" -> v.s # <<>>
      [] v.t = "object" -> TRUE
      [] v.t = "array" -> TRUE
      [] v.t = "number" -> v.n # 0 \/ "frac" \in DOMAIN v
      [] v.t = "boolean" -> v.b
      [] OTHER -> FALSE

\* a ?? b
Nullish(a, b) == IF a.t \in {"undefined", "null"} THEN b ELSE a

\* a || b
Or(a, b) == IF Truthy(a) THEN a ELSE b

\* v?.k : the field k of an object, undefined for anything else.
Prop(v, k) ==
    IF v.t = "object"
    THEN IF k \in DOMAIN v.f THEN v.f[k] ELSE Undefined
    ELSE Undefined


LowerCaseLetters ==
    << "a", "b", "c", "d", "e", "f", "g", "h", "i", "j", "k", "l", "m",
       "n", "o", "p", "q", "r", "s", "t", "u", "v", "w", "x", "y", "z" >>

UpperCaseLetters ==
    << "A", "B", "C", "D", "E", "F", "G", "H", "I", "J", "K", "L", "M",
       "N", "O", "P", "Q", "R", "S", "T", "U", "V", "W", "X", "Y", "Z" >>

UpperChar(c) ==
    IF \E i \in 1..Len(LowerCaseLetters) : LowerCaseLetters[i] = c
    THEN UpperCaseLetters[CHOOSE i \in 1..Len(LowerCaseLetters) : LowerCaseLetters[i] = c]
    ELSE c

\* s.toUpperCase()
RECURSIVE ToUpperCase(_)
ToUpperCase(s) ==
    IF s = <<>> THEN <<>> ELSE <<UpperChar(Head(s))>> \o ToUpperCase(Tail(s))

\* arr.includes(x)
Includes(arr, x) == \E i \in 1..Len(arr) : arr[i] = x

\* Whether the literal lit matches s at offset off, letters compared as the
\* ignore-case flag compares them (both canonicalised to upper case).
MatchesAtIgnoreCase(lit, s, off) ==
    /\ off + Len(lit) <= Len(s)
    /\ \A j \in 1..Len(lit) : UpperChar(s[off + j]) = UpperChar(lit[j])

\* /a|b|.../i.test(s) for an alternation of literals.
RegexTestIgnoreCase(alternatives, s) ==
    \E a \in 1..Len(alternatives) :
        \E off \in 0..Len(s) : MatchesAtIgnoreCase(alternatives[a], s, off)

DecimalDigits == << "0", "1", "2", "3", "4", "5", "6", "7", "8", "9" >>

\* String(n) for a non-negative integer n.
RECURSIVE NumberToString(_)
NumberToString(n) ==
    IF n < 10
    THEN <<DecimalDigits[n + 1]>>
    ELSE NumberToString(n \div 10) \o <<DecimalDigits[(n % 10) + 1]>>

\* String(v) for a number v: a sign, the whole part and, if there is one,
\* the fraction.
NumberText(v) ==
    IF "frac" \in DOMAIN v
    THEN (IF v.neg THEN <<"-">> ELSE <<>>) \o NumberToString(v.n) \o <<".">> \o v.frac
    ELSE IF v.n < 0 THEN <<"-">> \o NumberToString(0 - v.n) ELSE NumberToString(v.n)

\* String(v), also the conversion `new Error(v)` applies to its message.
JsString(v) ==
    CASE v.t = "string" -> v.s
      [] v.t = "object" -> sObjectObject
      [] v.t = "null" -> sNullText
      [] v.t = "number" -> NumberText(v)
      [] v.t = "boolean" -> IF v.b THEN <<"t", "r", "u", "e">> ELSE <<"f", "a", "l", "s", "e">>
      [] OTHER -> sUndefinedText

\* The number NaN.
NaN == [t |-> "nan"]

IsDigits(s) == \A i \in 1..Len(s) : \E d \in 1..10 : DecimalDigits[d] = s[i]

\* The value of a string of decimal digits.
RECURSIVE DigitsValue(_)
DigitsValue(s) ==
    IF s = <<>>
    THEN 0
    ELSE 10 * DigitsValue(SubSeq(s, 1, Len(s) - 1))
             + (CHOOSE d \in 0..9 : DecimalDigits[d + 1] = s[Len(s)])

(***************************************************************************)
(* Amounts: parseFloat, the toNumber of preEnquiryApi, and formatINR.      *)
(***************************************************************************)
RECURSIVE StripTrailingZeros(_)
StripTrailingZeros(d) ==
    IF d # <<>> /\ d[Len(d)] = "0" THEN StripTrailingZeros(SubSeq(d, 1, Len(d) - 1)) ELSE d

\* The number with whole part n and fraction digits frac, negative if neg.
JDec(neg, n, frac) ==
    IF StripTrailingZeros(frac) = <<>>
    THEN JNum(IF neg THEN 0 - n ELSE n)
    ELSE [t |-> "number", n |-> n, frac |-> StripTrailingZeros(frac), neg |-> neg]

\* The longest prefix of s made of decimal digits.
RECURSIVE DigitsPrefix(_)
DigitsPrefix(s) ==
    IF s = <<>> \/ ~IsDigits(<<Head(s)>>)
    THEN <<>>
    ELSE <<Head(s)>> \o DigitsPrefix(Tail(s))

\* parseFloat(s) for s without leading white space: the longest prefix that
\* is a decimal literal (sign, digits, point, digits), NaN if there is none.
\* Exponents are not part of the modelled inputs; "Infinity" ends as NaN,
\* which toNumber and formatINR treat alike.
parseFloat(s) ==
    LET signed == s # <<>> /\ Head(s) \in {"+", "-"}
        body == IF signed THEN Tail(s) ELSE s
        whole == DigitsPrefix(body)
        rest == SubSeq(body, Len(whole) + 1, Len(body))
        frac == IF rest # <<>> /\ Head(rest) = "." THEN DigitsPrefix(Tail(rest)) ELSE <<>>
    IN  IF whole = <<>> /\ frac = <<>>
        THEN NaN
        ELSE JDec(signed /\ Head(s) = "-", DigitsValue(whole), frac)

\* s.replace(/[,\s]/g, "")
StripSeparators(s) == SelectSeq(s, LAMBDA c : c \notin {",", " ", "\t", "\n", "\r"})

\* Number.isFinite(n)
IsFinite(n) == n.t = "number"

\* toNumber of the wizard's preEnquiryApi.
toNumber(val) ==
    LET n == parseFloat(StripSeparators(JsString(Nullish(val, JStr(<<>>)))))
    IN  IF IsFinite(n) THEN n ELSE JNum(0)

\* The digits of a whole number grouped as the en-IN locale groups them:
\* the last three, then twos.
RECURSIVE GroupByTwo(_)
GroupByTwo(s) ==
    IF Len(s) <= 2
    THEN s
    ELSE GroupByTwo(SubSeq(s, 1, Len(s) - 2)) \o <<",">> \o SubSeq(s, Len(s) - 1, Len(s))

GroupIndian(s) ==
    IF Len(s) <= 3
    THEN s
    ELSE GroupByTwo(SubSeq(s, 1, Len(s) - 3)) \o <<",">> \o SubSeq(s, Len(s) - 2, Len(s))

\* The hundredths of a number, rounded half away from zero on its third
\* fraction digit.
Hundredths(v) ==
    IF "frac" \notin DOMAIN v
    THEN 100 * (IF v.n < 0 THEN 0 - v.n ELSE v.n)
    ELSE LET d == v.frac \o <<"0", "0">>
         IN  100 * v.n + DigitsValue(SubSeq(d, 1, 2))
                 + (IF DigitsValue(<<d[3]>>) >= 5 THEN 1 ELSE 0)

IsNegative(v) == IF "frac" \in DOMAIN v THEN v.neg ELSE v.n < 0

\* new Intl.NumberFormat("en-IN", {minimumFractionDigits: 2,
\* maximumFractionDigits: 2}).format(n) for a finite n.
FormatTwoDecimals(v) ==
    LET h == Hundredths(v)
        c == h % 100
    IN  (IF IsNegative(v) /\ h # 0 THEN <<"-">> ELSE <<>>)
            \o GroupIndian(NumberToString(h \div 100))
            \o <<".">> \o <<DecimalDigits[(c \div 10) + 1], DecimalDigits[(c % 10) + 1]>>

\* formatINR(amount) with its default options.
formatINR(amount) ==
    LET n == IF amount.t = "number" THEN amount
             ELSE parseFloat(JsString(Or(amount, JNum(0))))
    IN  FormatTwoDecimals(IF IsFinite(n) THEN n ELSE JNum(0))

(***************************************************************************)
(* The client's pre-enquiry helpers (wizard page).                         *)
(***************************************************************************)
errorStatusCodes == << sERR, sIAN, sINV, sNF, sNA >>

\* The alternatives of /invalid|error|failed|not found|unavailable/i.
errorStatusPattern == << sInvalid, sError, sFailed, sNotFound, sUnavailable >>

\* extractErrorStatus of the wizard page.  Optional chaining never throws,
\* so the catch branch is not reachable.
extractErrorStatus(data) ==
    Or(Or(Or(Or(Or(Prop(data, "error"),
                   Prop(data, "status")),
                Prop(Prop(data, "error"), "status")),
             IF Prop(data, "error").t = "string" THEN Prop(data, "error") ELSE JStr(<<>>)),
          Prop(data, "message")),
       JStr(sAnErrorOccurred))

\* The code check without the conversion to upper case.
hasErrorStatusCodeCaseSensitive(data) ==
    LET statuscode == Or(Prop(data, "statuscode"), Prop(Prop(data, "error"), "statuscode"))
    IN  Truthy(statuscode) /\ Includes(errorStatusCodes, JsString(statuscode))

\* statuscode && errorStatusCodes.includes(String(statuscode).toUpperCase())
hasErrorStatusCode(data) ==
    LET statuscode == Or(Prop(data, "statuscode"), Prop(Prop(data, "error"), "statuscode"))
    IN  Truthy(statuscode) /\ Includes(errorStatusCodes, ToUpperCase(JsString(statuscode)))

\* status && /invalid|error|failed|not found|unavailable/i.test(String(status))
hasErrorStatus(data) ==
    LET status == Or(Prop(data, "status"), Prop(Prop(data, "error"), "status"))
    IN  Truthy(status) /\ RegexTestIgnoreCase(errorStatusPattern, JsString(status))

\* An HTTP exchange as the caller of fetch sees it: a response with a status
\* and a JSON body, or an exception (network failure, body that is not JSON).
HttpResponse(status, body) == [kind |-> "http", status |-> status, body |-> body]

FetchThrows(message) == [kind |-> "throw", message |-> message]

\* res.ok
ResOk(res) == res.status >= 200 /\ res.status <= 299

Rejected(message) == [rejected |-> TRUE, message |-> message]

Resolved(value) == [rejected |-> FALSE, value |-> value]

\* The EnquiryResponse built from a body that is not an error.
toEnquiryResponse(data, externalRef) ==
    LET e == Or(Prop(data, "data"), data)
    IN  [ enquiryReferenceId |-> Or(Prop(e, "enquiryReferenceId"), JStr(externalRef)),
          amount |-> toNumber(Nullish(Nullish(Prop(e, "BillAmount"), Prop(e, "amount")), JNum(0))),
          customerName |-> Or(Prop(e, "CustomerName"), Prop(e, "customerName")),
          dueDate |-> Or(Prop(e, "BillDueDate"), Prop(e, "dueDate")) ]

\* preEnquiryApi, from the response of fetch on: the promise rejects with
\* an Error whose message is String(msg), or resolves to an EnquiryResponse.
preEnquiryApi(res, externalRef) ==
    IF res.kind = "throw"
    THEN Rejected(res.message)
    ELSE IF ~ResOk(res)
    THEN Rejected(JsString(Or(extractErrorStatus(res.body), JStr(sFailedToFetchRechargeDetails))))
    ELSE IF hasErrorStatusCode(res.body) \/ hasErrorStatus(res.body)
    THEN Rejected(JsString(Or(extractErrorStatus(res.body), JStr(sInvalidRequest))))
    ELSE Resolved(toEnquiryResponse(res.body, externalRef))

(***************************************************************************)
(* The pre-enquiry proxy route.                                            *)
(***************************************************************************)
RouteErrorStatusCodes == << sERR, sIAN, sINV, sNF, sNA >>

\* The route's check looking at the status text only.
isErrorResponseStatusOnly(data) ==
    IF ~Truthy(data)
    THEN FALSE
    ELSE LET status == Or(Prop(data, "status"), Prop(Prop(data, "error"), "status"))
         IN  Truthy(status) /\ RegexTestIgnoreCase(errorStatusPattern, JsString(status))

isErrorResponse(data) ==
    IF ~Truthy(data)
    THEN FALSE
    ELSE LET statuscode == Or(Prop(data, "statuscode"), Prop(Prop(data, "error"), "statuscode"))
             status == Or(Prop(data, "status"), Prop(Prop(data, "error"), "status"))
         IN  \/ Truthy(statuscode) /\ Includes(RouteErrorStatusCodes, ToUpperCase(JsString(statuscode)))
             \/ Truthy(status) /\ RegexTestIgnoreCase(errorStatusPattern, JsString(status))

RouteExtractErrorStatus(data) ==
    Or(Or(Or(Or(Prop(data, "status"),
                Prop(Prop(data, "error"), "status")),
             IF Prop(data, "error").t = "string" THEN Prop(data, "error") ELSE JStr(<<>>)),
          Prop(data, "message")),
       JStr(sAnErrorOccurred))

\* What `await request.json()` yields when the request body is not JSON: a
\* thrown SyntaxError.  A parsed body is the JSON value itself.
RequestThrows(message) == [t |-> "throw", message |-> message]

\* POST of /api/bbps/pre-enquiry: body is the parsed request body, upstream
\* what the fetch of the upstream service yields.
PreEnquiryPOST(body, upstream) ==
    IF body.t = "throw"
    THEN HttpResponse(500, JObj("error" :> JStr(body.message)))
    ELSE IF \/ ~Truthy(Prop(Or(body, EmptyObj), "billerId"))
       \/ ~Truthy(Prop(Or(body, EmptyObj), "inputParameters"))
       \/ ~Truthy(Prop(Or(body, EmptyObj), "externalRef"))
    THEN HttpResponse(400, JObj("error" :> JStr(sRequiredFields)))
    ELSE IF upstream.kind = "throw"
    THEN HttpResponse(500, JObj("error" :> JStr(upstream.message)))
    ELSE IF ~ResOk(upstream)
    THEN HttpResponse(upstream.status,
                      JObj(("error" :> Or(RouteExtractErrorStatus(upstream.body), JStr(sRequestFailed)))
                           @@ ("details" :> upstream.body)))
    ELSE IF isErrorResponse(upstream.body)
    THEN HttpResponse(400,
                      JObj(("error" :> Or(RouteExtractErrorStatus(upstream.body), JStr(sInvalidRequest)))
                           @@ ("details" :> upstream.body)))
    ELSE HttpResponse(200, upstream.body)

\* The body the pre-enquiry route sends upstream, JNull when it sends none.
PreEnquiryUpstreamRequest(body) ==
    IF \/ body.t = "throw"
       \/ ~Truthy(Prop(Or(body, EmptyObj), "billerId"))
       \/ ~Truthy(Prop(Or(body, EmptyObj), "inputParameters"))
       \/ ~Truthy(Prop(Or(body, EmptyObj), "externalRef"))
    THEN JNull
    ELSE JObj(("billerId" :> Prop(body, "billerId"))
              @@ ("inputParameters" :> Prop(body, "inputParameters"))
              @@ ("externalRef" :> Prop(body, "externalRef"))
              @@ ("transactionAmount" :> Nullish(Prop(body, "transactionAmount"), JNum(0))))

(***************************************************************************)
(* The biller-details route.                                               *)
(***************************************************************************)
sBillerIdRequired == <<"b", "i", "l", "l", "e", "r", "I", "d", " ", "i", "s", " ", "r", "e", "q", "u", "i", "r", "e", "d">>

\* The route with the check of billerId placed after the upstream call.
BillerDetailsUpstreamRequestUnchecked(body) ==
    IF body.t = "throw"
    THEN JNull
    ELSE JObj("billerId" :> Prop(body, "billerId"))

\* The body the biller-details route sends upstream, JNull when it sends none.
BillerDetailsUpstreamRequest(body) ==
    IF body.t = "throw" \/ ~Truthy(Prop(body, "billerId"))
    THEN JNull
    ELSE JObj("billerId" :> Prop(body, "billerId"))

\* POST of /api/bbps/biller-details.
BillerDetailsPOST(body, upstream) ==
    IF body.t = "throw"
    THEN HttpResponse(500, JObj("error" :> JStr(body.message)))
    ELSE IF ~Truthy(Prop(body, "billerId"))
    THEN HttpResponse(400, JObj("error" :> JStr(sBillerIdRequired)))
    ELSE IF upstream.kind = "throw"
    THEN HttpResponse(500, JObj("error" :> JStr(upstream.message)))
    ELSE IF ~ResOk(upstream)
    THEN HttpResponse(upstream.status, JObj("error" :> upstream.body))
    ELSE HttpResponse(200, upstream.body)

(***************************************************************************)
(* The billers route.                                                      *)
(***************************************************************************)
sC10 == <<"C", "1", "0">>

DefaultPageNumber == 1

DefaultRecordsPerPage == 50

\* const body = await request.json().catch(() => ({}))
BillersRequestBody(body) == IF body.t = "throw" THEN EmptyObj ELSE body

\* The body the billers route sends upstream.
BillersUpstreamRequest(body) ==
    LET b == BillersRequestBody(body)
        pageNumber == Nullish(Prop(Prop(b, "pagination"), "pageNumber"), JNum(DefaultPageNumber))
        recordsPerPage == Nullish(Prop(Prop(b, "pagination"), "recordsPerPage"), JNum(DefaultRecordsPerPage))
        categoryKey == Nullish(Prop(Prop(b, "filters"), "categoryKey"), JStr(sC10))
    IN  JObj(("pagination" :> JObj(("pageNumber" :> pageNumber) @@ ("recordsPerPage" :> recordsPerPage)))
             @@ ("filters" :> JObj("categoryKey" :> categoryKey)))

\* The route answering every upstream response as a success.
BillersPOSTIgnoringStatus(body, upstream) ==
    IF upstream.kind = "throw"
    THEN HttpResponse(500, JObj("error" :> JStr(upstream.message)))
    ELSE HttpResponse(200, upstream.body)

\* POST of /api/bbps/billers.
BillersPOST(body, upstream) ==
    IF upstream.kind = "throw"
    THEN HttpResponse(500, JObj("error" :> JStr(upstream.message)))
    ELSE IF ~ResOk(upstream)
    THEN HttpResponse(upstream.status, JObj("error" :> upstream.body))
    ELSE HttpResponse(200, upstream.body)

(***************************************************************************)
(* Biller details: the upstream parameter schema and its local shape.      *)
(* An upstream field that is absent is modelled by its falsy value ("", 0, *)
(* FALSE, the empty list): the code reads every one of them through ||.    *)
(***************************************************************************)
sNUMERIC == <<"N", "U", "M", "E", "R", "I", "C">>

sALPHANUMERIC == <<"A", "L", "P", "H", "A", "N", "U", "M", "E", "R", "I", "C">>

DefaultMaxLength == 256

defaultPaymentModes ==
    << sUPI, sInternetBanking, sDebitCard, sCreditCard, sAccountTransfer, sNEFT, sBharatQR >>

\* One element of inputParameters.map(...) in fetchBillerDetailsApi.
toInputParameter(p) ==
    [ name |-> IF p.desc # <<>> THEN p.desc ELSE p.name,
      paramName |-> IF p.name # <<>> THEN p.name ELSE p.paramName,
      dataType |-> IF p.inputType = sNUMERIC THEN sNUMERIC ELSE sALPHANUMERIC,
      minLength |-> p.minLength,
      maxLength |-> IF p.maxLength # 0 THEN p.maxLength ELSE DefaultMaxLength,
      regex |-> p.regex,
      mandatory |-> p.mandatory,
      desc |-> p.desc ]

\* The body of a biller-details response: the lists the code reads from it.
\* An error envelope {error: ...} carries neither list.
DetailsBody(params, modes) == [inputParameters |-> params, paymentModes |-> modes]

\* inputParameters.map(...)
RECURSIVE mapInputParameters(_)
mapInputParameters(paramsSrc) ==
    IF paramsSrc = <<>>
    THEN <<>>
    ELSE <<toInputParameter(Head(paramsSrc))>> \o mapInputParameters(Tail(paramsSrc))

\* fetchBillerDetailsApi, from the response of fetch on.  res.ok is not
\* consulted.  fetchRequirement, supportValidation and
\* paymentAmountExactness are never read by the page and are left out.
fetchBillerDetailsApi(res) ==
    IF res.kind = "throw"
    THEN Rejected(res.message)
    ELSE LET paramsSrc == res.body.inputParameters
             paymentModes == SelectSeq(res.body.paymentModes, LAMBDA m : m # <<>>)
         IN  Resolved(
                 [ inputParameters |-> mapInputParameters(paramsSrc),
                   paymentModes |-> IF Len(paymentModes) # 0 THEN paymentModes
                                    ELSE defaultPaymentModes ])

(***************************************************************************)
(* Submit-time validation.                                                 *)
(***************************************************************************)
sDigitsRegex == <<"^", "[", "0", "-", "9", "]", "+", "$">>

sUpperFirstRegex == <<"^", "[", "A", "-", "Z", "]">>

IsDigit(c) == \E i \in 1..Len(DecimalDigits) : DecimalDigits[i] = c

IsUpperLetter(c) == \E i \in 1..Len(UpperCaseLetters) : UpperCaseLetters[i] = c

\* new RegExp(regex).test(value), for the patterns the modelled billers use.
RegExpTest(regex, value) ==
    CASE regex = sDigitsRegex ->
             Len(value) >= 1 /\ \A i \in 1..Len(value) : IsDigit(value[i])
      [] regex = sUpperFirstRegex ->
             Len(value) >= 1 /\ IsUpperLetter(value[1])

\* formData[p.paramName] || ""
FormValue(form, p) == IF p.paramName \in DOMAIN form THEN form[p.paramName] ELSE <<>>

Passed == [ok |-> TRUE]

Failed(message) == [ok |-> FALSE, message |-> message]

\* The loop body with the minLength check ahead of the regex check.
validateParameterLengthFirst(p, value) ==
    IF p.mandatory /\ value = <<>>
    THEN Failed(sPleaseEnter \o p.name)
    ELSE IF value # <<>> /\ Len(value) < p.minLength
    THEN Failed(p.name \o sMustBeAtLeast \o NumberToString(p.minLength) \o sCharacters)
    ELSE IF value # <<>> /\ p.regex # <<>> /\ ~RegExpTest(p.regex, value)
    THEN Failed(sInvalidPrefix \o p.name)
    ELSE Passed

\* The three checks of the loop body for one parameter, in the code's order.
validateParameter(p, value) ==
    IF p.mandatory /\ value = <<>>
    THEN Failed(sPleaseEnter \o p.name)
    ELSE IF value # <<>> /\ p.regex # <<>> /\ ~RegExpTest(p.regex, value)
    THEN Failed(sInvalidPrefix \o p.name)
    ELSE IF value # <<>> /\ Len(value) < p.minLength
    THEN Failed(p.name \o sMustBeAtLeast \o NumberToString(p.minLength) \o sCharacters)
    ELSE Passed

\* for (const p of billerDetails.inputParameters) { ... return on failure }
RECURSIVE validateFrom(_, _, _)
validateFrom(params, form, i) ==
    IF i > Len(params)
    THEN Passed
    ELSE LET r == validateParameter(params[i], FormValue(form, params[i]))
         IN  IF r.ok THEN validateFrom(params, form, i + 1) ELSE r

\* A validation that lets an empty mandatory parameter through.
validateFormOptionalOnly(details, form) ==
    validateFrom(
        [i \in 1..Len(details.inputParameters) |->
            [details.inputParameters[i] EXCEPT !.mandatory = FALSE]],
        form, 1)

validateForm(details, form) == validateFrom(details.inputParameters, form, 1)

(***************************************************************************)
(* The wizard page (FastagRechargePage): its state, the upstream data of   *)
(* the modelled session, and one action per event handler or continuation. *)
(***************************************************************************)
VARIABLES
    currentStep,          \* 1..4
    selectedBiller,       \* a Biller or JNull
    billerDetails,        \* a BillerDetails or JNull
    formData,             \* paramName -> value
    enquiryData,          \* an EnquiryResponse or JNull
    selectedPaymentMode,  \* JStr(mode) or JNull
    loadingEnquiry,
    alert,                \* [type, message] or JNull
    detailsRequests,      \* bag of biller-details fetches in flight (billerId)
    enquiryRequests,      \* bag of pre-enquiry fetches in flight
    lastOp,               \* history: the handler that ran last
    wire,                 \* an HTTP exchange handed to the route and the client
    endpoint,             \* the proxy route the request is sent to
    routeRequest,         \* the request body the route is called with
    upstreamRequest,      \* the body the route forwarded upstream, or JNull
    routeResponse,        \* what the route answered, or JNull
    clientResult,         \* how preEnquiryApi settled, or JNull
    variant,              \* the directory page: "wizard" or "home"
    mounted,              \* "mounting" (rendered, effects not yet run), "mounted", "unmounted"
    billers,              \* the billers list of the page
    meta,                 \* pagination metadata, or JNull
    pageNumber,
    loadingBillers,       \* loadingBillers (wizard), loading (Home)
    initialLoading,       \* Home: the first page has not settled yet
    billersRequests,      \* billers fetches in flight: [pageNumber, abort]
    observer,             \* Home: the IntersectionObserver and what its callback closes over
    rawBiller,            \* an upstream biller record handed to the normalisation
    normalizedBiller,     \* what the normalisation made of it, or JNull
    statusText,           \* the status text the page classifies
    statusTone,           \* the tone the page gave it, or JNull
    amountText,           \* an amount as formatINR rendered it, or JNull
    amountParsed          \* what toNumber made of that text, or JNull

wizardVars ==
    << currentStep, selectedBiller, billerDetails, formData, enquiryData,
       selectedPaymentMode, loadingEnquiry, alert, detailsRequests,
       enquiryRequests, lastOp >>

httpVars == << wire, endpoint, routeRequest, upstreamRequest, routeResponse, clientResult >>

dirVars ==
    << variant, mounted, billers, meta, pageNumber, loadingBillers, initialLoading,
       billersRequests, observer, rawBiller, normalizedBiller >>

viewVars == << statusText, statusTone, amountText, amountParsed >>

vars == << wizardVars, httpVars, dirVars, viewVars >>

\* Bounds of the model: the requests in flight at once, and how far down
\* the list of payment mode buttons the user clicks.
MaxInFlight == 2

MaxModeIndex == 2

\* The billers shown on the page, as fetchBillers normalises them.
sB1 == <<"B", "1">>

sB2 == <<"B", "2">>

sPanIndia == <<"P", "A", "N", " ", "I", "n", "d", "i", "a">>

BillerA ==
    [ billerId |-> sB1, billerName |-> <<"A", "l", "p", "h", "a">>,
      isAvailable |-> TRUE, coverage |-> sPanIndia ]

BillerB ==
    [ billerId |-> sB2, billerName |-> <<"B", "e", "t", "a">>,
      isAvailable |-> TRUE, coverage |-> sPanIndia ]

BillerC ==
    [ billerId |-> <<"B", "3">>, billerName |-> <<"G", "a", "m", "m", "a">>,
      isAvailable |-> FALSE, coverage |-> sPanIndia ]

filteredBillers == {BillerA, BillerB, BillerC}

\* Upstream parameter records of the modelled billers.
sVehicleNo == <<"v", "e", "h", "i", "c", "l", "e", "N", "o">>

sVehicleNumber == <<"V", "e", "h", "i", "c", "l", "e", " ", "N", "u", "m", "b", "e", "r">>

sTagId == <<"t", "a", "g", "I", "d">>

sWalletMode == <<"W", "a", "l", "l", "e", "t">>

UpstreamParam(name, desc, inputType, minLength, maxLength, regex, mandatory) ==
    [ name |-> name, paramName |-> <<>>, desc |-> desc, inputType |-> inputType,
      minLength |-> minLength, maxLength |-> maxLength, regex |-> regex,
      mandatory |-> mandatory ]

\* What the biller-details endpoint may answer for a biller: its schema, the
\* proxy's error envelope with a non-2xx status, or a failed fetch.
DetailsResponses(billerId) ==
    { HttpResponse(200,
        IF billerId = sB1
        THEN DetailsBody(<< UpstreamParam(sVehicleNo, sVehicleNumber, sNUMERIC, 2, 0, sDigitsRegex, TRUE) >>,
                         << sUPI, sNEFT >>)
        ELSE DetailsBody(<< UpstreamParam(sTagId, <<>>, sALPHANUMERIC, 0, 2, <<>>, FALSE) >>,
                         << sWalletMode, sUPI >>)),
      HttpResponse(502, DetailsBody(<< >>, << >>)),
      FetchThrows(<<"F", "a", "i", "l", "e", "d", " ", "t", "o", " ", "f", "e", "t", "c", "h">>) }

\* What the user may type into a field of the form.
FormInputs == { <<"7", "7">> }

\* `SABPE_${Date.now()}`
Timestamps == { <<"1", "7">> }

externalRefAt(now) == sSABPE \o now

\* What the upstream pre-enquiry service may answer in the modelled session.
sAsha == <<"A", "s", "h", "a">>

sInvalidVehicle == <<"I", "n", "v", "a", "l", "i", "d", " ", "v", "e", "h", "i", "c", "l", "e">>

UpstreamEnquiryResponses ==
    { HttpResponse(200, JObj("data" :> JObj("CustomerName" :> JStr(sAsha)))),
      HttpResponse(200, JObj(("statuscode" :> JStr(sERR)) @@ ("status" :> JStr(sInvalidVehicle)))),
      HttpResponse(500, JObj("message" :> JStr(<<"d", "o", "w", "n">>))) }

\* JSON.stringify({ billerId, inputParameters, externalRef })
enquiryRequestBody(req) ==
    JObj(("billerId" :> JStr(req.billerId))
         @@ ("inputParameters" :> JObj(req.inputParameters))
         @@ ("externalRef" :> JStr(req.externalRef)))

\* What fetch("/api/bbps/pre-enquiry") may yield for a request: the route's
\* answer to it, or a failed fetch (an Error with an empty or a set message).
EnquiryResponses(req) ==
    { PreEnquiryPOST(enquiryRequestBody(req), up) : up \in UpstreamEnquiryResponses }
        \cup { FetchThrows(<<>>) }

ErrorAlert(message) == [type |-> "error", message |-> message]

InfoAlert(message) == [type |-> "info", message |-> message]

\* e?.message || fallback
MessageOr(message, fallback) == IF message # <<>> THEN message ELSE fallback

InFlight == BagCardinality(detailsRequests) + BagCardinality(enquiryRequests)

WizardInit ==
    /\ currentStep = 1
    /\ selectedBiller = JNull
    /\ billerDetails = JNull
    /\ formData = <<>>
    /\ enquiryData = JNull
    /\ selectedPaymentMode = JNull
    /\ loadingEnquiry = FALSE
    /\ alert = JNull
    /\ detailsRequests = EmptyBag
    /\ enquiryRequests = EmptyBag
    /\ lastOp = "init"

HttpIdle ==
    /\ wire = JNull
    /\ endpoint = "none"
    /\ routeRequest = JNull
    /\ upstreamRequest = JNull
    /\ routeResponse = JNull
    /\ clientResult = JNull

\* The directory part of the page before its first effect has run.
DirIdle ==
    /\ variant = "wizard"
    /\ mounted = "mounting"
    /\ billers = <<>>
    /\ meta = JNull
    /\ pageNumber = JNum(1)
    /\ loadingBillers = FALSE
    /\ initialLoading = TRUE
    /\ billersRequests = {}
    /\ observer = [state |-> "none"]
    /\ rawBiller = JNull
    /\ normalizedBiller = JNull

\* Nothing has been classified or rendered yet.
ViewIdle ==
    /\ statusText = <<>>
    /\ statusTone = JNull
    /\ amountText = JNull
    /\ amountParsed = JNull

Init == WizardInit /\ HttpIdle /\ DirIdle /\ ViewIdle

\* selectBiller, up to its await: a click on an enabled biller button of step 1.
selectBiller(b) ==
    /\ currentStep = 1
    /\ b.isAvailable
    /\ InFlight < MaxInFlight
    /\ selectedBiller' = b
    /\ alert' = InfoAlert(sLoadingDetailsForm)
    /\ detailsRequests' = detailsRequests (+) SetToBag({b.billerId})
    /\ lastOp' = "selectBiller"
    /\ UNCHANGED << currentStep, billerDetails, formData, enquiryData,
                    selectedPaymentMode, loadingEnquiry, enquiryRequests >>
    /\ UNCHANGED << httpVars, dirVars, viewVars >>

\* selectBiller, after its await: the details fetch of billerId settles as res.
selectBillerResume(billerId, res) ==
    /\ BagIn(billerId, detailsRequests)
    /\ detailsRequests' = detailsRequests (-) SetToBag({billerId})
    /\ LET r == fetchBillerDetailsApi(res)
       IN  IF r.rejected
           THEN /\ alert' = ErrorAlert(MessageOr(r.message, sFailedToLoadBillerDetails))
                /\ UNCHANGED << billerDetails, currentStep >>
           ELSE /\ billerDetails' = r.value
                /\ alert' = JNull
                /\ currentStep' = 2
    /\ lastOp' = "selectBillerResume"
    /\ UNCHANGED << selectedBiller, formData, enquiryData, selectedPaymentMode,
                    loadingEnquiry, enquiryRequests >>
    /\ UNCHANGED << httpVars, dirVars, viewVars >>

\* Whether the form of step 2 is rendered.
FormRendered == currentStep = 2 /\ billerDetails # JNull /\ selectedBiller # JNull

\* onChange of the input of parameter i: setFormData(s => ({...s, [paramName]: value})).
\* The input's maxLength attribute caps what can be typed.
setFormField(i, value) ==
    /\ FormRendered
    /\ i \in 1..Len(billerDetails.inputParameters)
    /\ Len(value) <= billerDetails.inputParameters[i].maxLength
    /\ LET k == billerDetails.inputParameters[i].paramName
       IN  formData' = [x \in DOMAIN formData \cup {k} |-> IF x = k THEN value ELSE formData[x]]
    /\ lastOp' = "setFormField"
    /\ UNCHANGED << currentStep, selectedBiller, billerDetails, enquiryData,
                    selectedPaymentMode, loadingEnquiry, alert, detailsRequests,
                    enquiryRequests >>
    /\ UNCHANGED << httpVars, dirVars, viewVars >>

\* onSubmit, up to its await.
onSubmit(now) ==
    /\ FormRendered
    /\ LET v == validateForm(billerDetails, formData)
       IN  IF ~v.ok
           THEN /\ alert' = ErrorAlert(v.message)
                /\ UNCHANGED << currentStep, loadingEnquiry, enquiryRequests >>
           ELSE /\ InFlight < MaxInFlight
                /\ currentStep' = 3
                /\ loadingEnquiry' = TRUE
                /\ enquiryRequests' = enquiryRequests (+) SetToBag({
                       [ billerId |-> selectedBiller.billerId,
                         inputParameters |-> formData,
                         externalRef |-> externalRefAt(now) ] })
                /\ UNCHANGED alert
    /\ lastOp' = "onSubmit"
    /\ UNCHANGED << selectedBiller, billerDetails, formData, enquiryData,
                    selectedPaymentMode, detailsRequests >>
    /\ UNCHANGED << httpVars, dirVars, viewVars >>

\* onSubmit after its await, without the finally block on the catch path.
onSubmitResumeWithoutFinally(req, res) ==
    /\ BagIn(req, enquiryRequests)
    /\ enquiryRequests' = enquiryRequests (-) SetToBag({req})
    /\ LET r == preEnquiryApi(res, req.externalRef)
       IN  IF r.rejected
           THEN /\ alert' = ErrorAlert(MessageOr(r.message, sFailedToFetchRechargeDetails))
                /\ currentStep' = 2
                /\ UNCHANGED << enquiryData, loadingEnquiry >>
           ELSE /\ enquiryData' = r.value
                /\ loadingEnquiry' = FALSE
                /\ UNCHANGED << alert, currentStep >>
    /\ lastOp' = "onSubmitResume"
    /\ UNCHANGED << selectedBiller, billerDetails, formData, selectedPaymentMode,
                    detailsRequests >>
    /\ UNCHANGED << httpVars, dirVars, viewVars >>

\* onSubmit after its await, with a catch that stays on step 3.
onSubmitResumeStayingOnStep(req, res) ==
    /\ BagIn(req, enquiryRequests)
    /\ enquiryRequests' = enquiryRequests (-) SetToBag({req})
    /\ LET r == preEnquiryApi(res, req.externalRef)
       IN  IF r.rejected
           THEN /\ alert' = ErrorAlert(MessageOr(r.message, sFailedToFetchRechargeDetails))
                /\ UNCHANGED << enquiryData, currentStep >>
           ELSE /\ enquiryData' = r.value
                /\ UNCHANGED << alert, currentStep >>
    /\ loadingEnquiry' = FALSE
    /\ lastOp' = "onSubmitResume"
    /\ UNCHANGED << selectedBiller, billerDetails, formData, selectedPaymentMode,
                    detailsRequests >>
    /\ UNCHANGED << httpVars, dirVars, viewVars >>

\* onSubmit, after its await: the pre-enquiry fetch of req settles as res.
onSubmitResume(req, res) ==
    /\ BagIn(req, enquiryRequests)
    /\ enquiryRequests' = enquiryRequests (-) SetToBag({req})
    /\ LET r == preEnquiryApi(res, req.externalRef)
       IN  IF r.rejected
           THEN /\ alert' = ErrorAlert(MessageOr(r.message, sFailedToFetchRechargeDetails))
                /\ currentStep' = 2
                /\ UNCHANGED enquiryData
           ELSE /\ enquiryData' = r.value
                /\ UNCHANGED << alert, currentStep >>
    /\ loadingEnquiry' = FALSE
    /\ lastOp' = "onSubmitResume"
    /\ UNCHANGED << selectedBiller, billerDetails, formData, selectedPaymentMode,
                    detailsRequests >>
    /\ UNCHANGED << httpVars, dirVars, viewVars >>

\* The back arrow and the Back button of step 2: setCurrentStep(1).
backToSelectIssuer ==
    /\ FormRendered
    /\ currentStep' = 1
    /\ lastOp' = "back"
    /\ UNCHANGED << selectedBiller, billerDetails, formData, enquiryData,
                    selectedPaymentMode, loadingEnquiry, alert, detailsRequests,
                    enquiryRequests >>
    /\ UNCHANGED << httpVars, dirVars, viewVars >>

\* Whether step 3 shows the enquiry (and with it the payment modes, the Back
\* button and Proceed to Payment).
EnquiryRendered == currentStep = 3 /\ ~loadingEnquiry /\ enquiryData # JNull

\* A Back from step 3 that discards the enquiry.
backToEnterDetailsDiscarding ==
    /\ currentStep = 3
    /\ currentStep' = 2
    /\ enquiryData' = JNull
    /\ lastOp' = "back"
    /\ UNCHANGED << selectedBiller, billerDetails, formData,
                    selectedPaymentMode, loadingEnquiry, alert, detailsRequests,
                    enquiryRequests >>
    /\ UNCHANGED << httpVars, dirVars, viewVars >>

\* The back arrow of step 3 (always rendered there) and its Back button:
\* setCurrentStep(2).
backToEnterDetails ==
    /\ currentStep = 3
    /\ currentStep' = 2
    /\ lastOp' = "back"
    /\ UNCHANGED << selectedBiller, billerDetails, formData, enquiryData,
                    selectedPaymentMode, loadingEnquiry, alert, detailsRequests,
                    enquiryRequests >>
    /\ UNCHANGED << httpVars, dirVars, viewVars >>

sCard == <<"C", "a", "r", "d">>

sNetBanking == <<"N", "e", "t", " ", "B", "a", "n", "k", "i", "n", "g">>

\* billerDetails?.paymentModes?.length ? billerDetails.paymentModes : [...]
shownPaymentModes ==
    IF billerDetails # JNull /\ Len(billerDetails.paymentModes) # 0
    THEN billerDetails.paymentModes
    ELSE << sUPI, sCard, sNetBanking, sWalletMode >>

\* A click on the i-th payment mode button.
selectPaymentMode(i) ==
    /\ EnquiryRendered
    /\ i \in 1..Len(shownPaymentModes)
    /\ i <= MaxModeIndex
    /\ selectedPaymentMode' = JStr(shownPaymentModes[i])
    /\ lastOp' = "selectPaymentMode"
    /\ UNCHANGED << currentStep, selectedBiller, billerDetails, formData,
                    enquiryData, loadingEnquiry, alert, detailsRequests,
                    enquiryRequests >>
    /\ UNCHANGED << httpVars, dirVars, viewVars >>

\* proceedToPayment without its guard.
proceedToPaymentUnguarded ==
    /\ EnquiryRendered
    /\ currentStep' = 4
    /\ lastOp' = "proceedToPayment"
    /\ UNCHANGED << selectedBiller, billerDetails, formData, enquiryData,
                    selectedPaymentMode, loadingEnquiry, alert, detailsRequests,
                    enquiryRequests >>
    /\ UNCHANGED << httpVars, dirVars, viewVars >>

proceedToPayment ==
    /\ EnquiryRendered
    /\ IF ~Truthy(selectedPaymentMode)
       THEN /\ alert' = ErrorAlert(sPleaseSelectPaymentMode)
            /\ UNCHANGED currentStep
       ELSE /\ currentStep' = 4
            /\ UNCHANGED alert
    /\ lastOp' = "proceedToPayment"
    /\ UNCHANGED << selectedBiller, billerDetails, formData, enquiryData,
                    selectedPaymentMode, loadingEnquiry, detailsRequests,
                    enquiryRequests >>
    /\ UNCHANGED << httpVars, dirVars, viewVars >>

Next ==
    \/ \E b \in filteredBillers : selectBiller(b)
    \/ \E b \in filteredBillers : \E res \in DetailsResponses(b.billerId) :
           selectBillerResume(b.billerId, res)
    \/ \E value \in FormInputs :
           FormRendered /\ \E i \in 1..Len(billerDetails.inputParameters) : setFormField(i, value)
    \/ \E now \in Timestamps : onSubmit(now)
    \/ \E req \in BagToSet(enquiryRequests) : \E res \in EnquiryResponses(req) :
           onSubmitResume(req, res)
    \/ backToSelectIssuer
    \/ backToEnterDetails
    \/ \E i \in 1..Len(shownPaymentModes) : selectPaymentMode(i)
    \/ proceedToPayment

Spec == Init /\ [][Next]_vars

(***************************************************************************)
(* Properties of the wizard.                                               *)
(***************************************************************************)

\* C1: proceedToPayment reaches MakePayment only with a payment mode
\* selected: at step 4 selectedPaymentMode is non-null, and right after a
\* proceedToPayment with no mode the page is still at step 3 and shows the
\* "Please select a payment mode" error.
C1_PaymentModeGuard ==
    /\ currentStep = 4 => Truthy(selectedPaymentMode)
    /\ (lastOp = "proceedToPayment" /\ ~Truthy(selectedPaymentMode)) =>
           (currentStep = 3 /\ alert = ErrorAlert(sPleaseSelectPaymentMode))

C1_Witness == currentStep = 4 /\ lastOp = "proceedToPayment"

\* C2: every change of currentStep is the forward move of its own action
\* (1->2 by a completed biller selection, 2->3 by a valid submit, 3->4 by
\* proceed-to-payment) or a move back to the prior step (2->1, 3->2).
C2_LinearSteps ==
    [][ currentStep' # currentStep =>
          \/ currentStep = 1 /\ currentStep' = 2 /\ lastOp' = "selectBillerResume"
          \/ currentStep = 2 /\ currentStep' = 3 /\ lastOp' = "onSubmit"
          \/ currentStep = 3 /\ currentStep' = 4 /\ lastOp' = "proceedToPayment"
          \/ currentStep = 2 /\ currentStep' = 1
          \/ currentStep = 3 /\ currentStep' = 2 ]_vars

\* The keys of the form are parameters of the loaded biller details.
ParamNames(details) ==
    { details.inputParameters[i].paramName : i \in 1..Len(details.inputParameters) }

\* C5: the keys of formData are a subset of the paramName values of the
\* currently loaded billerDetails.
C5_FormKeysSubset ==
    billerDetails # JNull => DOMAIN formData \subseteq ParamNames(billerDetails)

\* C6: right after a Back from EnterDetails to SelectIssuer (2->1) the
\* selected biller is null.
C6_BackClearsSelectedBiller ==
    [][ (lastOp' = "back" /\ currentStep = 2 /\ currentStep' = 1) =>
            selectedBiller' = JNull ]_vars

\* C7: a Back transition (3->2 or 2->1) moves currentStep to the prior step
\* and leaves billerDetails, enquiryData, formData and selectedPaymentMode
\* unchanged.
C7_BackKeepsData ==
    [][ (lastOp' = "back" /\ currentStep' # currentStep) =>
            /\ currentStep' = currentStep - 1
            /\ UNCHANGED << billerDetails, enquiryData, formData, selectedPaymentMode >> ]_vars

C7_Witness == lastOp = "back" /\ currentStep = 2 /\ enquiryData # JNull

(***************************************************************************)
(* Submit-time validation over a range of parameter schemas and forms:     *)
(* the page at step 2 with some details loaded and some form filled in.    *)
(***************************************************************************)
\* Bounds: the parameters of a schema, and the length of a typed value.
MaxParams == 2

MaxValueLen == 2

sMobile == <<"m", "o", "b", "i", "l", "e">>

\* The upstream parameters the schemas are built from.
UpstreamParamPool ==
    { UpstreamParam(sVehicleNo, sVehicleNumber, sNUMERIC, 2, 0, sDigitsRegex, TRUE),
      UpstreamParam(sTagId, <<>>, sALPHANUMERIC, 2, 0, sUpperFirstRegex, FALSE),
      UpstreamParam(sMobile, <<>>, sNUMERIC, 0, 0, <<>>, TRUE) }

\* The lists of at most n distinct parameters (paramName is a unique key).
RECURSIVE UpstreamParamLists(_)
UpstreamParamLists(n) ==
    IF n = 0
    THEN { <<>> }
    ELSE UpstreamParamLists(n - 1) \cup
         { Append(l, p) : l \in { x \in UpstreamParamLists(n - 1) : Len(x) = n - 1 },
                          p \in UpstreamParamPool }

DistinctNames(l) == \A i, j \in 1..Len(l) : i # j => l[i].name # l[j].name

ValueChars == { "7", "K" }

\* The strings of at most n characters over ValueChars.
RECURSIVE ValuesUpTo(_)
ValuesUpTo(n) ==
    IF n = 0
    THEN { <<>> }
    ELSE ValuesUpTo(n - 1) \cup
         { Append(v, c) : v \in { x \in ValuesUpTo(n - 1) : Len(x) = n - 1 }, c \in ValueChars }

\* The forms over a set of keys: each key absent or holding a value.
FormsOver(keys) ==
    UNION { [ks -> ValuesUpTo(MaxValueLen)] : ks \in SUBSET keys }

ValidateInit ==
    /\ currentStep = 2
    /\ selectedBiller = BillerA
    /\ \E l \in { x \in UpstreamParamLists(MaxParams) : x # <<>> /\ DistinctNames(x) } :
           billerDetails = fetchBillerDetailsApi(HttpResponse(200, DetailsBody(l, <<>>))).value
    /\ formData \in FormsOver(ParamNames(billerDetails))
    /\ enquiryData = JNull
    /\ selectedPaymentMode = JNull
    /\ loadingEnquiry = FALSE
    /\ alert = JNull
    /\ detailsRequests = EmptyBag
    /\ enquiryRequests = EmptyBag
    /\ lastOp = "setFormField"
    /\ HttpIdle
    /\ DirIdle
    /\ ViewIdle

ValidateNext ==
    \/ \E now \in Timestamps : onSubmit(now)
    \/ \E req \in BagToSet(enquiryRequests) : \E res \in EnquiryResponses(req) :
           onSubmitResume(req, res)

SpecValidate == ValidateInit /\ [][ValidateNext]_vars

\* What the specification asks of one parameter's value.
MandatoryMissing(p, value) == p.mandatory /\ value = <<>>

RegexMismatch(p, value) == value # <<>> /\ p.regex # <<>> /\ ~RegExpTest(p.regex, value)

TooShort(p, value) == value # <<>> /\ Len(value) < p.minLength

ParameterInvalid(p, form) ==
    \/ MandatoryMissing(p, FormValue(form, p))
    \/ RegexMismatch(p, FormValue(form, p))
    \/ TooShort(p, FormValue(form, p))

InvalidIndices(details, form) ==
    { i \in 1..Len(details.inputParameters) : ParameterInvalid(details.inputParameters[i], form) }

FirstInvalid(details, form) ==
    details.inputParameters[
        CHOOSE i \in InvalidIndices(details, form) :
            \A j \in InvalidIndices(details, form) : i <= j ]

\* Whether sub occurs in s.
Contains(s, sub) ==
    \E off \in 0..Len(s) :
        off + Len(sub) <= Len(s) /\ \A j \in 1..Len(sub) : s[off + j] = sub[j]

\* A step of onSubmit that changed something.
SubmitStep == lastOp' = "onSubmit" /\ vars' # vars

\* C3: onSubmit issues a pre-enquiry request only when every parameter of
\* the biller details passes validation (so every mandatory parameter has a
\* non-empty value); when one fails, no request is issued, currentStep is
\* unchanged and an error alert naming a failing parameter is raised.
C3_SubmitOnlyWhenValid ==
    [][ SubmitStep =>
          IF InvalidIndices(billerDetails, formData) = {}
          THEN /\ enquiryRequests' = enquiryRequests (+) SetToBag({
                      [ billerId |-> selectedBiller.billerId,
                        inputParameters |-> formData,
                        externalRef |-> externalRefAt(CHOOSE now \in Timestamps : TRUE) ] })
               /\ \A i \in 1..Len(billerDetails.inputParameters) :
                      billerDetails.inputParameters[i].mandatory =>
                          /\ billerDetails.inputParameters[i].paramName \in DOMAIN formData
                          /\ formData[billerDetails.inputParameters[i].paramName] # <<>>
          ELSE /\ enquiryRequests' = enquiryRequests
               /\ currentStep' = currentStep
               /\ alert'.type = "error"
               /\ \E i \in InvalidIndices(billerDetails, formData) :
                      Contains(alert'.message, billerDetails.inputParameters[i].name) ]_vars

C3_Witness ==
    /\ lastOp = "onSubmit"
    /\ currentStep = 2
    /\ alert # JNull
    /\ enquiryRequests = EmptyBag
    /\ InvalidIndices(billerDetails, formData) # {}

\* The message of the first failing check of a parameter, by the order
\* mandatory-and-empty, regex, minLength.
ExpectedMessage(p, value) ==
    IF MandatoryMissing(p, value)
    THEN sPleaseEnter \o p.name
    ELSE IF RegexMismatch(p, value)
    THEN sInvalidPrefix \o p.name
    ELSE p.name \o sMustBeAtLeast \o NumberToString(p.minLength) \o sCharacters

\* C4: validation reports exactly one message, that of the first invalid
\* parameter in declared order, and for it that of the first failing check
\* in the order mandatory-and-empty, regex, minLength.
C4_FirstFailureReported ==
    [][ (SubmitStep /\ InvalidIndices(billerDetails, formData) # {}) =>
            alert' = ErrorAlert(
                ExpectedMessage(FirstInvalid(billerDetails, formData),
                                FormValue(formData, FirstInvalid(billerDetails, formData)))) ]_vars

\* Two invalid parameters, the first failing both its regex and its
\* minLength, and the alert of a submit on display.
C4_Witness ==
    /\ lastOp = "onSubmit"
    /\ alert # JNull
    /\ Cardinality(InvalidIndices(billerDetails, formData)) >= 2
    /\ RegexMismatch(billerDetails.inputParameters[1], FormValue(formData, billerDetails.inputParameters[1]))
    /\ TooShort(billerDetails.inputParameters[1], FormValue(formData, billerDetails.inputParameters[1]))

(***************************************************************************)
(* Error classification and message extraction over a range of response    *)
(* bodies: one HTTP exchange is handed to the pre-enquiry route (as the     *)
(* upstream's answer) and to the client's preEnquiryApi (as the answer it   *)
(* received).                                                              *)
(***************************************************************************)
StatusCodeSamples ==
    { Undefined, JStr(<<"e", "r", "r">>), JStr(<<"I", "a", "n">>), JStr(sINV),
      JStr(<<"n", "f">>), JStr(<<"N", "a">>), JStr(<<"T", "X", "N">>),
      JStr(<<"N", "A", "X">>) }

StatusSamples ==
    { Undefined,
      JStr(<<"S", "u", "c", "c", "e", "s", "s">>),
      JStr(<<"I", "n", "v", "a", "l", "i", "d", " ", "b", "i", "l", "l", "e", "r">>),
      JStr(<<"E", "R", "R", "O", "R">>),
      JStr(<<"T", "r", "a", "n", "s", "a", "c", "t", "i", "o", "n", " ", "F", "a", "i", "l", "e", "d">>),
      JStr(<<"N", "o", "t", " ", "F", "o", "u", "n", "d">>),
      JStr(<<"S", "e", "r", "v", "i", "c", "e", " ", "U", "n", "a", "v", "a", "i", "l", "a", "b", "l", "e">>),
      JStr(<<"f", "a", "i", "l">>) }

MessageSamples ==
    { Undefined, JStr(<<"P", "a", "y", "m", "e", "n", "t", " ", "f", "a", "i", "l", "e", "d">>) }

ErrorSamples ==
    { Undefined,
      JStr(<<>>),
      JStr(<<"B", "a", "d", " ", "r", "e", "q", "u", "e", "s", "t">>),
      EmptyObj,
      JObj("statuscode" :> JStr(sIAN)),
      JObj("status" :> JStr(<<"N", "o", "t", " ", "f", "o", "u", "n", "d">>)),
      JObj("status" :> JStr(<<"P", "e", "n", "d", "i", "n", "g">>)) }

\* The object holding the fields that are present.
BodyOf(statuscode, status, message, error) ==
    LET all == ("statuscode" :> statuscode) @@ ("status" :> status)
                   @@ ("message" :> message) @@ ("error" :> error)
    IN  JObj([k \in { x \in DOMAIN all : all[x] # Undefined } |-> all[k]])

BodySamples ==
    { BodyOf(sc, st, m, e) : sc \in StatusCodeSamples, st \in StatusSamples,
                             m \in MessageSamples, e \in ErrorSamples }
        \cup { JNull }

WireSamples ==
    { HttpResponse(st, b) : st \in {200, 201, 400, 500}, b \in BodySamples }
        \cup { FetchThrows(<<"s", "o", "c", "k", "e", "t", " ", "h", "a", "n", "g", " ", "u", "p">>) }

sampleRequest == [billerId |-> sB1, inputParameters |-> <<>>, externalRef |-> externalRefAt(<<"1", "7">>)]

RouteRequestSamples ==
    { enquiryRequestBody(sampleRequest),
      JObj(("billerId" :> JStr(sB1)) @@ ("inputParameters" :> EmptyObj)),
      JNull }

ClassifyInit ==
    /\ WizardInit
    /\ wire \in WireSamples
    /\ endpoint = "pre-enquiry"
    /\ routeRequest \in RouteRequestSamples
    /\ upstreamRequest = JNull
    /\ routeResponse = JNull
    /\ clientResult = JNull
    /\ DirIdle
    /\ ViewIdle

\* The route handles routeRequest, with wire as the upstream's answer.
routePOST ==
    /\ endpoint = "pre-enquiry"
    /\ routeResponse = JNull
    /\ routeResponse' = PreEnquiryPOST(routeRequest, wire)
    /\ upstreamRequest' = PreEnquiryUpstreamRequest(routeRequest)
    /\ UNCHANGED << wire, endpoint, routeRequest, clientResult, wizardVars, dirVars, viewVars >>

\* The client's preEnquiryApi receives wire as the answer of its fetch.
clientPreEnquiry ==
    /\ clientResult = JNull
    /\ clientResult' = preEnquiryApi(wire, sampleRequest.externalRef)
    /\ UNCHANGED << wire, endpoint, routeRequest, upstreamRequest, routeResponse, wizardVars, dirVars, viewVars >>

ClassifyNext == routePOST \/ clientPreEnquiry

SpecClassify == ClassifyInit /\ [][ClassifyNext]_vars

LowerChar(c) ==
    IF \E i \in 1..Len(UpperCaseLetters) : UpperCaseLetters[i] = c
    THEN LowerCaseLetters[CHOOSE i \in 1..Len(UpperCaseLetters) : UpperCaseLetters[i] = c]
    ELSE c

EqualsIgnoreCase(a, b) ==
    Len(a) = Len(b) /\ \A i \in 1..Len(a) : LowerChar(a[i]) = LowerChar(b[i])

ContainsIgnoreCase(s, sub) ==
    \E off \in 0..Len(s) :
        /\ off + Len(sub) <= Len(s)
        /\ \A j \in 1..Len(sub) : LowerChar(s[off + j]) = LowerChar(sub[j])

ErrorCodeSet == { sERR, sIAN, sINV, sNF, sNA }

ErrorKeywords == { sInvalid, sError, sFailed, sNotFound, sUnavailable }

\* The text of a field, "" when the field is absent or not a string.
Text(v) == IF v.t = "string" THEN v.s ELSE <<>>

\* The status code field of a body: its own statuscode, else that of its
\* nested error object; likewise its status field.
StatusCodeField(body) ==
    IF Text(Prop(body, "statuscode")) # <<>>
    THEN Text(Prop(body, "statuscode"))
    ELSE Text(Prop(Prop(body, "error"), "statuscode"))

StatusField(body) ==
    IF Text(Prop(body, "status")) # <<>>
    THEN Text(Prop(body, "status"))
    ELSE Text(Prop(Prop(body, "error"), "status"))

HasErrorCode(body) == \E c \in ErrorCodeSet : EqualsIgnoreCase(StatusCodeField(body), c)

StatusHasKeyword(body) == \E k \in ErrorKeywords : ContainsIgnoreCase(StatusField(body), k)

MessageHasKeyword(body) ==
    \E k \in ErrorKeywords : ContainsIgnoreCase(Text(Prop(body, "message")), k)

\* The client was handed a 2xx response and has settled.
ClientSettled2xx == clientResult # JNull /\ wire.kind = "http" /\ ResOk(wire)

\* C8 (as stated): for every 2xx body, preEnquiry rejects if and only if the
\* status code field is one of ERR, IAN, INV, NF, NA ignoring case, or the
\* status field or the message field contains an error keyword.
C8_RejectsIffCodeStatusOrMessage ==
    ClientSettled2xx =>
        (clientResult.rejected <=>
            (HasErrorCode(wire.body) \/ StatusHasKeyword(wire.body) \/ MessageHasKeyword(wire.body)))

\* C8 (amended): for every 2xx body, preEnquiry rejects if and only if the
\* status code field (statuscode, else error.statuscode) is one of ERR, IAN,
\* INV, NF, NA ignoring case, or the status field (status, else
\* error.status) contains an error keyword ignoring case; the message field
\* is not consulted.
C8_RejectsIffCodeOrStatus ==
    ClientSettled2xx =>
        (clientResult.rejected <=> (HasErrorCode(wire.body) \/ StatusHasKeyword(wire.body)))

\* A rejection on a lower-case code alone, and not on any keyword.
C8_Witness ==
    /\ ClientSettled2xx
    /\ clientResult.rejected
    /\ HasErrorCode(wire.body)
    /\ Prop(wire.body, "statuscode") # JStr(ToUpperCase(StatusCodeField(wire.body)))
    /\ ~StatusHasKeyword(wire.body)

\* The request the route was called with names all three required fields.
RequestComplete ==
    /\ Truthy(Prop(routeRequest, "billerId"))
    /\ Truthy(Prop(routeRequest, "inputParameters"))
    /\ Truthy(Prop(routeRequest, "externalRef"))

IsNonEmptyString(v) == v.t = "string" /\ v.s # <<>>

\* C9: when the upstream answers HTTP 200 with a body carrying an error code
\* or an error status, the route answers 400 with a non-empty error string;
\* it answers 200 only with upstream bodies that are not domain errors.
C9_RouteRejectsDomainErrors ==
    routeResponse # JNull =>
        /\ ( /\ RequestComplete
             /\ wire.kind = "http"
             /\ wire.status = 200
             /\ (HasErrorCode(wire.body) \/ StatusHasKeyword(wire.body)) ) =>
               /\ routeResponse.status = 400
               /\ IsNonEmptyString(Prop(routeResponse.body, "error"))
        /\ routeResponse.status = 200 =>
               /\ wire.kind = "http"
               /\ routeResponse.body = wire.body
               /\ ~(HasErrorCode(wire.body) \/ StatusHasKeyword(wire.body))

C9_Witness ==
    /\ routeResponse # JNull
    /\ RequestComplete
    /\ wire.kind = "http"
    /\ wire.status = 200
    /\ HasErrorCode(wire.body)
    /\ ~StatusHasKeyword(wire.body)
    /\ routeResponse.status = 400

\* The message the priority chain selects: the error string, else the status
\* string, else the nested error.status, else message; "" when none is set.
ChainMessage(body) ==
    IF Text(Prop(body, "error")) # <<>> THEN Text(Prop(body, "error"))
    ELSE IF Text(Prop(body, "status")) # <<>> THEN Text(Prop(body, "status"))
    ELSE IF Text(Prop(Prop(body, "error"), "status")) # <<>>
    THEN Text(Prop(Prop(body, "error"), "status"))
    ELSE Text(Prop(body, "message"))

FallbackTexts == { sAnErrorOccurred, sFailedToFetchRechargeDetails, sInvalidRequest }

\* C10: for every error body (HTTP-level or domain-level) the failure raised
\* by preEnquiry carries the message chosen by the chain error string ->
\* status string -> nested error.status -> message -> generic fallback, and
\* that message is a non-empty string.
C10_MessageByPriorityChain ==
    (clientResult # JNull /\ wire.kind = "http" /\ clientResult.rejected) =>
        /\ clientResult.message # <<>>
        /\ IF ChainMessage(wire.body) # <<>>
           THEN clientResult.message = ChainMessage(wire.body)
           ELSE clientResult.message \in FallbackTexts

\* Both sides have handled the same HTTP exchange and both treated its body
\* as an error: the route answered with an error envelope, the client rejected.
BothExtracted ==
    /\ routeResponse # JNull
    /\ clientResult # JNull
    /\ RequestComplete
    /\ wire.kind = "http"
    /\ routeResponse.status # 200
    /\ clientResult.rejected

\* C11: for every error body, the message the route's extractErrorStatus
\* extracts (the error field of its answer) equals the message the client's
\* extractErrorStatus extracts from the same body (the message of its failure).
C11_SameExtractionChain ==
    BothExtracted => JsString(Prop(routeResponse.body, "error")) = clientResult.message

(***************************************************************************)
(* The three proxy routes over a range of requests and upstream answers:   *)
(* one request is sent to one endpoint, and wire is what the upstream      *)
(* service yields if the route calls it.                                   *)
(***************************************************************************)
sNotJson == <<"U", "n", "e", "x", "p", "e", "c", "t", "e", "d", " ", "t", "o", "k", "e", "n">>

Endpoints == { "billers", "biller-details", "pre-enquiry" }

ProxyRequestSamples(ep) ==
    CASE ep = "billers" ->
           { JObj(("pagination" :> JObj(("pageNumber" :> JNum(2)) @@ ("recordsPerPage" :> JNum(10))))
                  @@ ("filters" :> JObj("categoryKey" :> JStr(<<"C", "0", "7">>)))),
             JObj("pagination" :> JObj("pageNumber" :> JNum(0))),
             EmptyObj, JNull, RequestThrows(sNotJson) }
      [] ep = "biller-details" ->
           { JObj("billerId" :> JStr(sB1)), JObj("billerId" :> JStr(<<>>)),
             EmptyObj, JNull, RequestThrows(sNotJson) }
      [] OTHER ->
           { enquiryRequestBody(sampleRequest),
             JObj(("billerId" :> JStr(sB1)) @@ ("inputParameters" :> EmptyObj)
                  @@ ("externalRef" :> JStr(externalRefAt(<<"1", "7">>)))
                  @@ ("transactionAmount" :> JNum(100))),
             JObj(("inputParameters" :> EmptyObj) @@ ("externalRef" :> JStr(externalRefAt(<<"1", "7">>)))),
             JObj(("billerId" :> JStr(sB1)) @@ ("externalRef" :> JStr(externalRefAt(<<"1", "7">>)))),
             JObj(("billerId" :> JStr(sB1)) @@ ("inputParameters" :> EmptyObj)),
             JNull, RequestThrows(sNotJson) }

ProxyBodySamples ==
    { EmptyObj, JNull,
      JObj("message" :> JStr(<<"d", "o", "w", "n">>)),
      JObj("status" :> JStr(sInvalidVehicle)),
      JObj("statuscode" :> JStr(sNA)),
      JObj("error" :> JStr(<<"B", "a", "d", " ", "r", "e", "q", "u", "e", "s", "t">>)),
      JObj("data" :> JObj("CustomerName" :> JStr(sAsha))) }

ProxyWireSamples ==
    { HttpResponse(st, b) : st \in {200, 201, 404, 500}, b \in ProxyBodySamples }
        \cup { FetchThrows(<<"s", "o", "c", "k", "e", "t", " ", "h", "a", "n", "g", " ", "u", "p">>) }

ProxyInit ==
    /\ WizardInit
    /\ endpoint \in Endpoints
    /\ routeRequest \in ProxyRequestSamples(endpoint)
    /\ wire \in ProxyWireSamples
    /\ upstreamRequest = JNull
    /\ routeResponse = JNull
    /\ clientResult = JNull
    /\ DirIdle
    /\ ViewIdle

billersPOST ==
    /\ endpoint = "billers"
    /\ routeResponse = JNull
    /\ routeResponse' = BillersPOST(routeRequest, wire)
    /\ upstreamRequest' = BillersUpstreamRequest(routeRequest)
    /\ UNCHANGED << wire, endpoint, routeRequest, clientResult, wizardVars, dirVars, viewVars >>

billerDetailsPOST ==
    /\ endpoint = "biller-details"
    /\ routeResponse = JNull
    /\ routeResponse' = BillerDetailsPOST(routeRequest, wire)
    /\ upstreamRequest' = BillerDetailsUpstreamRequest(routeRequest)
    /\ UNCHANGED << wire, endpoint, routeRequest, clientResult, wizardVars, dirVars, viewVars >>

ProxyNext == billersPOST \/ billerDetailsPOST \/ routePOST

SpecProxy == ProxyInit /\ [][ProxyNext]_vars

\* The route has answered a request for which it called the upstream service.
Forwarded == routeResponse # JNull /\ upstreamRequest # JNull

UpstreamFailed == Forwarded /\ wire.kind = "http" /\ ~ResOk(wire)

UpstreamThrew == Forwarded /\ wire.kind = "throw"

\* C12 (as stated): each of the three proxies answers a non-2xx upstream
\* response with the upstream status code and the body {error: <upstream
\* body>}, and an exception with HTTP 500 and {error: <exception message>}.
C12_ErrorsRewrappedByAllProxies ==
    /\ UpstreamFailed =>
           /\ routeResponse.status = wire.status
           /\ routeResponse.body = JObj("error" :> wire.body)
    /\ UpstreamThrew =>
           /\ routeResponse.status = 500
           /\ routeResponse.body = JObj("error" :> JStr(wire.message))

\* C12 (amended): the billers and biller-details proxies answer a non-2xx
\* upstream response with the upstream status code and {error: <upstream
\* body>}; the pre-enquiry proxy answers it with the upstream status code and
\* {error: <non-empty message string>, details: <upstream body>}; all three
\* answer an exception with HTTP 500 and {error: <exception message>}.
C12_ErrorsRewrapped ==
    /\ (UpstreamFailed /\ endpoint # "pre-enquiry") =>
           /\ routeResponse.status = wire.status
           /\ routeResponse.body = JObj("error" :> wire.body)
    /\ (UpstreamFailed /\ endpoint = "pre-enquiry") =>
           /\ routeResponse.status = wire.status
           /\ DOMAIN routeResponse.body.f = {"error", "details"}
           /\ IsNonEmptyString(Prop(routeResponse.body, "error"))
           /\ Prop(routeResponse.body, "details") = wire.body
    /\ UpstreamThrew =>
           /\ routeResponse.status = 500
           /\ routeResponse.body = JObj("error" :> JStr(wire.message))

C12_Witness ==
    /\ UpstreamFailed
    /\ endpoint = "billers"
    /\ wire.status = 404
    /\ routeResponse.status = 404
    /\ wire.body # JNull

\* The request body parsed, and the named field of it is missing (absent,
\* null or empty).
Missing(field) == routeRequest.t # "throw" /\ ~Truthy(Prop(routeRequest, field))

\* C13: the biller-details proxy answers 400 when billerId is missing, the
\* pre-enquiry proxy answers 400 when billerId, inputParameters or
\* externalRef is missing, and in both cases nothing is sent upstream.
C13_MissingFieldsRejected ==
    routeResponse # JNull =>
        /\ (endpoint = "biller-details" /\ Missing("billerId")) =>
               (routeResponse.status = 400 /\ upstreamRequest = JNull)
        /\ ( /\ endpoint = "pre-enquiry"
             /\ (Missing("billerId") \/ Missing("inputParameters") \/ Missing("externalRef")) ) =>
               (routeResponse.status = 400 /\ upstreamRequest = JNull)

C13_Witness ==
    /\ routeResponse # JNull
    /\ endpoint = "biller-details"
    /\ routeRequest = EmptyObj
    /\ routeResponse.status = 400
    /\ upstreamRequest = JNull

(***************************************************************************)
(* The billers list: fetchBillers and the normalisation of its records.    *)
(***************************************************************************)
sACTIVE == <<"A", "C", "T", "I", "V", "E">>

sDash == <<"-">>

\* The coverage with the "-" sentinel of the city and state left unchecked.
coverageKeepingDash(b) ==
    IF Truthy(Prop(b, "coverageCity")) THEN Prop(b, "coverageCity")
    ELSE IF Truthy(Prop(b, "coverageState")) THEN Prop(b, "coverageState")
    ELSE JStr(sPanIndia)

\* coverage: city, else state, else "PAN India"
coverage(b) ==
    IF Truthy(Prop(b, "coverageCity")) /\ Prop(b, "coverageCity") # JStr(sDash)
    THEN Prop(b, "coverageCity")
    ELSE IF Truthy(Prop(b, "coverageState")) /\ Prop(b, "coverageState") # JStr(sDash)
    THEN Prop(b, "coverageState")
    ELSE JStr(sPanIndia)

\* The availability taken from the truthiness of isAvailable.
isAvailableByTruthiness(b) ==
    Truthy(Prop(b, "isAvailable")) \/ Prop(b, "billerStatus") = JStr(sACTIVE)

\* isAvailable: the upstream boolean, else billerStatus === "ACTIVE"
isAvailable(b) ==
    IF Prop(b, "isAvailable").t = "boolean"
    THEN Prop(b, "isAvailable").b
    ELSE Prop(b, "billerStatus") = JStr(sACTIVE)

\* The callback of list.map in fetchBillers.
normalizeBiller(b) ==
    [ billerId |-> Or(Or(Prop(b, "billerId"), Prop(b, "id")), JStr(<<>>)),
      billerName |-> Or(Or(Prop(b, "billerName"), Prop(b, "name")), JStr(<<>>)),
      isAvailable |-> isAvailable(b),
      coverage |-> coverage(b),
      iconUrl |-> Prop(b, "iconUrl") ]

(***************************************************************************)
(* The normalisation over a range of upstream biller records.              *)
(***************************************************************************)
IsAvailableSamples == { Undefined, JNull, JBool(TRUE), JBool(FALSE), JStr(<<"t", "r", "u", "e">>) }

BillerStatusSamples ==
    { Undefined, JStr(sACTIVE), JStr(<<"I", "N", "A", "C", "T", "I", "V", "E">>),
      JStr(<<"a", "c", "t", "i", "v", "e">>) }

CoverageCitySamples == { Undefined, JNull, JStr(<<>>), JStr(sDash), JStr(<<"P", "u", "n", "e">>) }

CoverageStateSamples == { Undefined, JNull, JStr(<<>>), JStr(sDash), JStr(<<"G", "o", "a">>) }

\* The object holding the fields of an upstream biller record that are present.
RawBillerOf(id, available, status, city, state) ==
    LET all == ("billerId" :> id) @@ ("isAvailable" :> available) @@ ("billerStatus" :> status)
                   @@ ("coverageCity" :> city) @@ ("coverageState" :> state)
    IN  JObj([k \in { x \in DOMAIN all : all[x] # Undefined } |-> all[k]])

RawBillerSamples ==
    { RawBillerOf(JStr(sB1), a, st, c, s) :
        a \in IsAvailableSamples, st \in BillerStatusSamples,
        c \in CoverageCitySamples, s \in CoverageStateSamples }

NormalizeInit ==
    /\ WizardInit
    /\ HttpIdle
    /\ variant = "wizard"
    /\ mounted = "mounting"
    /\ billers = <<>>
    /\ meta = JNull
    /\ pageNumber = JNum(1)
    /\ loadingBillers = FALSE
    /\ initialLoading = TRUE
    /\ billersRequests = {}
    /\ ViewIdle
    /\ observer = [state |-> "none"]
    /\ rawBiller \in RawBillerSamples
    /\ normalizedBiller = JNull

normalizeRecord ==
    /\ normalizedBiller = JNull
    /\ normalizedBiller' = normalizeBiller(rawBiller)
    /\ UNCHANGED << variant, mounted, billers, meta, pageNumber, loadingBillers,
                    initialLoading, billersRequests, observer, rawBiller,
                    wizardVars, httpVars, viewVars >>

NormalizeNext == normalizeRecord

SpecNormalize == NormalizeInit /\ [][NormalizeNext]_vars

\* C14: the normalized biller is available if and only if the upstream
\* record provides isAvailable: true, or provides no boolean isAvailable and
\* its billerStatus equals "ACTIVE".
C14_AvailabilityNormalized ==
    normalizedBiller # JNull =>
        ( normalizedBiller.isAvailable = TRUE <=>
            \/ Prop(rawBiller, "isAvailable") = JBool(TRUE)
            \/ /\ Prop(rawBiller, "isAvailable") \notin {JBool(TRUE), JBool(FALSE)}
               /\ Prop(rawBiller, "billerStatus") = JStr(sACTIVE) )

\* An explicit false wins over an ACTIVE status.
C14_Witness ==
    /\ normalizedBiller # JNull
    /\ Prop(rawBiller, "isAvailable") = JBool(FALSE)
    /\ Prop(rawBiller, "billerStatus") = JStr(sACTIVE)
    /\ normalizedBiller.isAvailable = FALSE

\* The value is none of the listed ones.
NotIn(v, excluded) == v \notin excluded

\* The coverage chain over the values counted as absent.
CoverageChain(absent) ==
    IF NotIn(Prop(rawBiller, "coverageCity"), absent) THEN Prop(rawBiller, "coverageCity")
    ELSE IF NotIn(Prop(rawBiller, "coverageState"), absent) THEN Prop(rawBiller, "coverageState")
    ELSE JStr(sPanIndia)

\* C15 (as stated): the coverage is the city when the city is not in
\* {undefined, "-"}; else the state when the state is not in {undefined, "-"};
\* else "PAN India".
C15_CoverageByUndefinedOrDash ==
    normalizedBiller # JNull =>
        normalizedBiller.coverage = CoverageChain({Undefined, JStr(sDash)})

\* C15 (amended): the coverage is the city when the city is not in
\* {undefined, null, "", "-"}; else the state when the state is not in
\* {undefined, null, "", "-"}; else "PAN India".
C15_CoverageByEmptyOrDash ==
    normalizedBiller # JNull =>
        normalizedBiller.coverage = CoverageChain({Undefined, JNull, JStr(<<>>), JStr(sDash)})

\* A "-" city with a named state yields the state.
C15_Witness ==
    /\ normalizedBiller # JNull
    /\ Prop(rawBiller, "coverageCity") = JStr(sDash)
    /\ Prop(rawBiller, "coverageState") = JStr(<<"G", "o", "a">>)
    /\ normalizedBiller.coverage = JStr(<<"G", "o", "a">>)

(***************************************************************************)
(* fetchBillers: the page of records and the pagination metadata.          *)
(***************************************************************************)
sFailedToLoadProviders == <<"F", "a", "i", "l", "e", "d", " ", "t", "o", " ", "l", "o", "a", "d", " ", "F", "A", "S", "T", "a", "g", " ", "p", "r", "o", "v", "i", "d", "e", "r", "s">>

\* Messages of the TypeErrors the engine throws inside fetchBillers.
sMapNotFunction == <<"l", "i", "s", "t", ".", "m", "a", "p", " ", "i", "s", " ", "n", "o", "t", " ", "a", " ", "f", "u", "n", "c", "t", "i", "o", "n">>

sCannotReadNull == <<"C", "a", "n", "n", "o", "t", " ", "r", "e", "a", "d", " ", "p", "r", "o", "p", "e", "r", "t", "i", "e", "s", " ", "o", "f", " ", "n", "u", "l", "l">>

\* Number(v)
RECURSIVE JsNumber(_)
JsNumber(v) ==
    CASE v.t = "number" -> v
      [] v.t = "string" -> IF IsDigits(v.s) THEN JNum(DigitsValue(v.s)) ELSE NaN
      [] v.t = "boolean" -> JNum(IF v.b THEN 1 ELSE 0)
      [] v.t = "null" -> JNum(0)
      [] v.t = "array" ->
             IF v.a = <<>> THEN JNum(0)
             ELSE IF Len(v.a) = 1 THEN JsNumber(v.a[1]) ELSE NaN
      [] OTHER -> NaN

\* a >= b on numbers: false when either is NaN.
JsGE(a, b) == a.t = "number" /\ b.t = "number" /\ a.n >= b.n

\* Math.min(a, b), Math.max(a, b), a + b
MathMin(a, b) ==
    IF a.t # "number" \/ b.t # "number" THEN NaN ELSE IF a.n <= b.n THEN a ELSE b

MathMax(a, b) ==
    IF a.t # "number" \/ b.t # "number" THEN NaN ELSE IF a.n >= b.n THEN a ELSE b

Plus(a, b) == IF a.t # "number" \/ b.t # "number" THEN NaN ELSE JNum(a.n + b.n)

\* (list as any[]).map(...)
RECURSIVE mapBillers(_)
mapBillers(list) ==
    IF list = <<>>
    THEN <<>>
    ELSE <<normalizeBiller(Head(list))>> \o mapBillers(Tail(list))

\* The BillerMeta built from the metadata of the body.
toBillerMeta(metaRaw, pageNo, recordCount) ==
    [ totalPages |-> JsNumber(Or(Prop(metaRaw, "totalPages"), JNum(1))),
      currentPage |-> JsNumber(Or(Or(Prop(metaRaw, "currentPage"), pageNo), JNum(1))),
      totalRecords |-> JsNumber(Or(Prop(metaRaw, "totalRecords"), JNum(recordCount))),
      recordsOnCurrentPage |-> JsNumber(Or(Prop(metaRaw, "recordsOnCurrentPage"), JNum(recordCount))),
      recordFrom |-> JsNumber(Or(Prop(metaRaw, "recordFrom"), JNum(1))),
      recordTo |-> JsNumber(Or(Prop(metaRaw, "recordTo"), JNum(recordCount))) ]

\* fetchBillers(pageNumber, recordsPerPage): res is what its fetch yields.
fetchBillers(res, pageNo) ==
    IF res.kind = "throw"
    THEN Rejected(res.message)
    ELSE LET data == res.body
             list == Or(Or(Or(Prop(Prop(data, "data"), "records"), Prop(data, "records")),
                           Prop(data, "data")),
                        JArr(<<>>))
         IN  IF list.t # "array"
             THEN Rejected(sMapNotFunction)
             ELSE IF \E i \in 1..Len(list.a) : list.a[i].t \in {"null", "undefined"}
             THEN Rejected(sCannotReadNull)
             ELSE Resolved([ records |-> mapBillers(list.a),
                             meta |-> toBillerMeta(Or(Prop(Prop(data, "data"), "meta"), EmptyObj),
                                                   pageNo, Len(list.a)) ])

\* The updater of setBillers in Home: prev with the records whose billerId
\* prev does not hold appended.
mergeUnique(prev, records) ==
    LET seen == { prev[i].billerId : i \in 1..Len(prev) }
        fresh == SelectSeq(records, LAMBDA r : r.billerId \notin seen)
    IN  prev \o fresh

(***************************************************************************)
(* The biller directory of both pages: the billers effect, its             *)
(* continuation after the fetch, and the controls that change the page     *)
(* (Previous/Next in the wizard, the scroll sentinel in Home).             *)
(***************************************************************************)
WizardRecordsPerPage == 9

HomeRecordsPerPage == 24

\* Upstream biller records of the modelled session.
UpstreamBiller(id, name) ==
    JObj(("billerId" :> JStr(id)) @@ ("billerName" :> JStr(name)) @@ ("billerStatus" :> JStr(sACTIVE)))

UpB1 == UpstreamBiller(sB1, <<"A", "l", "p", "h", "a">>)

UpB2 == UpstreamBiller(sB2, <<"B", "e", "t", "a">>)

UpB3 == UpstreamBiller(<<"B", "3">>, <<"G", "a", "m", "m", "a">>)

UpB4 == UpstreamBiller(<<"B", "4">>, <<"D", "e", "l", "t", "a">>)

\* The same billerId under two names.
UpB4Again == UpstreamBiller(<<"B", "4">>, <<"D", "e", "l", "t", "a", " ", "2">>)

TotalPagesUpstream == 3

BillersPageBody(records, pageNo) ==
    JObj("data" :> JObj(("records" :> JArr(records))
                        @@ ("meta" :> JObj(("totalPages" :> JNum(TotalPagesUpstream))
                                           @@ ("currentPage" :> pageNo)))))

\* What the upstream service may answer for a page: the page (page 2 repeats
\* a record of page 1), a page that lists one billerId twice, or a failure.
UpstreamBillersResponses(pageNo) ==
    { HttpResponse(200, BillersPageBody(
          CASE pageNo = JNum(1) -> << UpB1, UpB2 >>
            [] pageNo = JNum(2) -> << UpB2, UpB3 >>
            [] OTHER -> << UpB4 >>, pageNo)),
      HttpResponse(200, BillersPageBody(<< UpB4, UpB4Again >>, pageNo)),
      HttpResponse(500, JObj("message" :> JStr(<<"d", "o", "w", "n">>))) }

\* JSON.stringify({ pagination: { pageNumber, recordsPerPage }, filters: { categoryKey } })
billersRequestBody(req) ==
    JObj(("pagination" :> JObj(("pageNumber" :> req.pageNumber)
                               @@ ("recordsPerPage" :>
                                       JNum(IF variant = "wizard" THEN WizardRecordsPerPage
                                                                  ELSE HomeRecordsPerPage))))
         @@ ("filters" :> JObj("categoryKey" :> JStr(sC10))))

\* What fetch("/api/bbps/billers") may yield for a request: the route's
\* answer to it, or a failed fetch.
BillersResponses(req) ==
    { BillersPOST(billersRequestBody(req), up) : up \in UpstreamBillersResponses(req.pageNumber) }
        \cup { FetchThrows(<<"F", "a", "i", "l", "e", "d", " ", "t", "o", " ", "f", "e", "t", "c", "h">>) }

DirectoryInit ==
    /\ WizardInit
    /\ HttpIdle
    /\ variant \in {"wizard", "home"}
    /\ mounted = "mounting"
    /\ billers = <<>>
    /\ meta = JNull
    /\ pageNumber = JNum(1)
    /\ loadingBillers = FALSE
    /\ initialLoading = TRUE
    /\ billersRequests = {}
    /\ ViewIdle
    /\ observer = [state |-> "none"]
    /\ rawBiller = JNull
    /\ normalizedBiller = JNull

\* The cleanup of the previous run of the billers effect (abort = true) and
\* its next run for page pageNo, up to the await.
runBillersEffect(pageNo) ==
    /\ loadingBillers' = TRUE
    /\ billersRequests' =
           { [r EXCEPT !.abort = TRUE] : r \in billersRequests }
               \cup { [pageNumber |-> pageNo, abort |-> FALSE] }

\* The first run of the billers effect, after the first render.
billersEffectOnMount ==
    /\ mounted = "mounting"
    /\ mounted' = "mounted"
    /\ runBillersEffect(pageNumber)
    /\ lastOp' = "billersEffect"
    /\ UNCHANGED << variant, billers, meta, pageNumber, initialLoading, observer,
                    rawBiller, normalizedBiller, httpVars, viewVars >>
    /\ UNCHANGED << currentStep, selectedBiller, billerDetails, formData, enquiryData,
                    selectedPaymentMode, loadingEnquiry, alert, detailsRequests,
                    enquiryRequests >>

\* Every response is taken as current.
neverAborted(req) == TRUE

\* if (!abort) ... / if (aborted) return
notAborted(req) == ~req.abort

\* The billers effect after its await: res is what the fetch of req yielded.
billersEffectResume(req, res) ==
    /\ req \in billersRequests
    /\ billersRequests' = billersRequests \ {req}
    /\ wire' = res
    /\ lastOp' = "billersEffectResume"
    /\ LET r == fetchBillers(res, req.pageNumber)
       IN  IF ~notAborted(req)
           THEN UNCHANGED << billers, meta, loadingBillers, initialLoading, alert, observer >>
           ELSE IF variant = "wizard"
           THEN /\ loadingBillers' = FALSE
                /\ IF r.rejected
                   THEN /\ alert' = ErrorAlert(MessageOr(r.message, sFailedToLoadProviders))
                        /\ UNCHANGED << billers, meta >>
                   ELSE /\ billers' = r.value.records
                        /\ meta' = r.value.meta
                        /\ UNCHANGED alert
                /\ UNCHANGED << initialLoading, observer >>
           ELSE /\ loadingBillers' = FALSE
                /\ initialLoading' = FALSE
                /\ IF r.rejected
                   THEN UNCHANGED << billers, meta >>
                   ELSE /\ billers' = mergeUnique(billers, r.value.records)
                        /\ meta' = r.value.meta
                \* The observer effect: it attaches once the sentinel is rendered;
                \* a later render disconnects what an earlier run attached.
                /\ observer' =
                       CASE observer.state = "none" ->
                              [ state |-> "attached", loading |-> FALSE, meta |-> meta',
                                pageNumber |-> pageNumber ]
                         [] observer.state = "attached" -> [state |-> "disconnected"]
                         [] OTHER -> observer
                /\ UNCHANGED alert
    /\ UNCHANGED << variant, mounted, pageNumber, rawBiller, normalizedBiller,
                    endpoint, routeRequest, upstreamRequest, routeResponse, clientResult, viewVars >>
    /\ UNCHANGED << currentStep, selectedBiller, billerDetails, formData, enquiryData,
                    selectedPaymentMode, loadingEnquiry, detailsRequests, enquiryRequests >>

\* Whether the list and the Previous/Next buttons of step 1 are rendered.
PaginationRendered ==
    variant = "wizard" /\ mounted = "mounted" /\ currentStep = 1 /\ ~loadingBillers

\* setPageNumber(next), and the billers effect that follows a changed page.
changePage(next) ==
    /\ pageNumber' = next
    /\ IF next # pageNumber
       THEN runBillersEffect(next)
       ELSE UNCHANGED << loadingBillers, billersRequests >>

\* Click on Previous.
previousPage ==
    /\ PaginationRendered
    /\ ~(meta = JNull \/ ~JsGE(pageNumber, JNum(2)))
    /\ changePage(MathMax(JNum(1), Plus(pageNumber, JNum(-1))))
    /\ lastOp' = "previousPage"
    /\ UNCHANGED << variant, mounted, billers, meta, initialLoading, observer,
                    rawBiller, normalizedBiller, httpVars, viewVars >>
    /\ UNCHANGED << currentStep, selectedBiller, billerDetails, formData, enquiryData,
                    selectedPaymentMode, loadingEnquiry, alert, detailsRequests,
                    enquiryRequests >>

\* Click on Next.
nextPage ==
    /\ PaginationRendered
    /\ ~(meta = JNull \/ JsGE(pageNumber, Or(meta.totalPages, JNum(1))))
    /\ changePage(MathMin(meta.totalPages, Plus(pageNumber, JNum(1))))
    /\ lastOp' = "nextPage"
    /\ UNCHANGED << variant, mounted, billers, meta, initialLoading, observer,
                    rawBiller, normalizedBiller, httpVars, viewVars >>
    /\ UNCHANGED << currentStep, selectedBiller, billerDetails, formData, enquiryData,
                    selectedPaymentMode, loadingEnquiry, alert, detailsRequests,
                    enquiryRequests >>

\* The callback of the IntersectionObserver, with the loading, meta and
\* pageNumber of the render that attached it; the render that follows its
\* setPageNumber disconnects the observer.
sentinelIntersects ==
    /\ variant = "home"
    /\ mounted = "mounted"
    /\ observer.state = "attached"
    /\ ~observer.loading
    /\ ~(observer.meta # JNull
             /\ JsGE(observer.pageNumber, Or(observer.meta.totalPages, JNum(1))))
    /\ changePage(Plus(pageNumber, JNum(1)))
    /\ observer' = [state |-> "disconnected"]
    /\ lastOp' = "sentinelIntersects"
    /\ UNCHANGED << variant, mounted, billers, meta, initialLoading,
                    rawBiller, normalizedBiller, httpVars, viewVars >>
    /\ UNCHANGED << currentStep, selectedBiller, billerDetails, formData, enquiryData,
                    selectedPaymentMode, loadingEnquiry, alert, detailsRequests,
                    enquiryRequests >>

\* The render after setObserverAttached(true): the cleanup of the observer
\* effect disconnects the observer before it has called back.
observerCleanup ==
    /\ variant = "home"
    /\ mounted = "mounted"
    /\ observer.state = "attached"
    /\ observer' = [state |-> "disconnected"]
    /\ lastOp' = "observerCleanup"
    /\ UNCHANGED << variant, mounted, billers, meta, pageNumber, loadingBillers,
                    initialLoading, billersRequests, rawBiller, normalizedBiller, httpVars, viewVars >>
    /\ UNCHANGED << currentStep, selectedBiller, billerDetails, formData, enquiryData,
                    selectedPaymentMode, loadingEnquiry, alert, detailsRequests,
                    enquiryRequests >>

\* The page is left: the cleanups of its effects run.
unmountPage ==
    /\ mounted = "mounted"
    /\ mounted' = "unmounted"
    /\ billersRequests' = { [r EXCEPT !.abort = TRUE] : r \in billersRequests }
    /\ observer' = IF observer.state = "attached" THEN [state |-> "disconnected"] ELSE observer
    /\ lastOp' = "unmountPage"
    /\ UNCHANGED << variant, billers, meta, pageNumber, loadingBillers, initialLoading,
                    rawBiller, normalizedBiller, httpVars, viewVars >>
    /\ UNCHANGED << currentStep, selectedBiller, billerDetails, formData, enquiryData,
                    selectedPaymentMode, loadingEnquiry, alert, detailsRequests,
                    enquiryRequests >>

DirectoryNext ==
    \/ billersEffectOnMount
    \/ \E req \in billersRequests : \E res \in BillersResponses(req) : billersEffectResume(req, res)
    \/ previousPage
    \/ nextPage
    \/ sentinelIntersects
    \/ observerCleanup
    \/ unmountPage

SpecDirectory == DirectoryInit /\ [][DirectoryNext]_vars

(***************************************************************************)
(* The accumulated list of Home.                                           *)
(***************************************************************************)
NoTwoWithSameBillerId(list) ==
    \A i, j \in 1..Len(list) : list[i].billerId = list[j].billerId => i = j

IsPrefixOf(old, new) ==
    Len(old) <= Len(new) /\ \A i \in 1..Len(old) : new[i] = old[i]

\* C16: in the infinite-scroll variant the accumulated billers list never
\* holds two entries with the same billerId, and every step only appends to
\* it: the entries it had keep their content and their order.
C16_AppendUnique ==
    /\ [](variant = "home" => NoTwoWithSameBillerId(billers))
    /\ [][variant = "home" => IsPrefixOf(billers, billers')]_vars

\* The append-only half of C16 alone.
C16_AppendOnly == [][variant = "home" => IsPrefixOf(billers, billers')]_vars


\* A step that hands the answer of a current billers request to the effect.
CurrentBillersResponse ==
    /\ lastOp' = "billersEffectResume"
    /\ \E r \in billersRequests \ billersRequests' : ~r.abort

\* C17: when a current billers request fails, by a failed fetch or by a
\* non-2xx answer of the proxy, an error becomes visible to the user and the
\* billers list keeps its content.
C17_FailedPageSurfaced ==
    [][ (CurrentBillersResponse /\ (wire'.kind = "throw" \/ ~ResOk(wire')))
            => (alert' # JNull /\ alert'.type = "error" /\ billers' = billers) ]_vars

\* The same for a failed fetch in the wizard alone.
C17_WizardNetworkFailureSurfaced ==
    [][ (CurrentBillersResponse /\ variant = "wizard" /\ wire'.kind = "throw")
            => (alert' # JNull /\ alert'.type = "error" /\ billers' = billers) ]_vars


\* The request whose answer a step hands to the billers effect was issued for
\* a page the component has left, or by a component that is gone.
AbandonedBillersResponse ==
    /\ lastOp' = "billersEffectResume"
    /\ \E r \in billersRequests \ billersRequests' :
           r.abort \/ r.pageNumber # pageNumber \/ mounted # "mounted"

\* C18: the answer to a billers request issued for a page that has been left
\* since, or by a component that has been torn down, modifies none of
\* billers, meta and the loading flag.
C18_AbandonedPageDiscarded ==
    [][ AbandonedBillersResponse => UNCHANGED << billers, meta, loadingBillers >> ]_vars

\* An answer arrived after the page was left, and the list is still loading.
C18_Witness ==
    /\ lastOp = "billersEffectResume"
    /\ mounted = "unmounted"
    /\ loadingBillers
    /\ wire.kind = "http" /\ ResOk(wire)
    /\ billers = <<>>


(***************************************************************************)
(* Responses to requests of a step the user has left.                      *)
(***************************************************************************)
\* A step hands over the details of a biller that is no longer the selected
\* one, or hands them over after the page has left step 1.
AbandonedDetailsResponse ==
    /\ lastOp' = "selectBillerResume"
    /\ \E id \in BagToSet(detailsRequests) :
           /\ CopiesIn(id, detailsRequests') < CopiesIn(id, detailsRequests)
           /\ (selectedBiller.billerId # id \/ currentStep # 1)

\* A step hands over the answer to a pre-enquiry after the user went back
\* from step 3.
AbandonedEnquiryResponse ==
    /\ lastOp' = "onSubmitResume"
    /\ currentStep # 3

\* C19: a biller-details or pre-enquiry response that arrives after the user
\* has left the step that asked for it (Back, or another biller selected)
\* changes none of billerDetails, enquiryData, currentStep and alert.
C19_AbandonedStepDiscarded ==
    [][ (AbandonedDetailsResponse \/ AbandonedEnquiryResponse)
            => UNCHANGED << billerDetails, enquiryData, currentStep, alert >> ]_vars


(***************************************************************************)
(* Steps 2 to 4 under the assumption that every request is answered.       *)
(***************************************************************************)
\* The details of biller b as a successful selectBiller leaves them.
LoadedDetails(b) ==
    fetchBillerDetailsApi(
        CHOOSE res \in DetailsResponses(b.billerId) : res.kind = "http" /\ ResOk(res)).value

\* The wizard on step 2, right after the details of a biller have loaded.
SubmitInit ==
    /\ currentStep = 2
    /\ selectedBiller \in { b \in filteredBillers : b.isAvailable }
    /\ billerDetails = LoadedDetails(selectedBiller)
    /\ formData = <<>>
    /\ enquiryData = JNull
    /\ selectedPaymentMode = JNull
    /\ loadingEnquiry = FALSE
    /\ alert = JNull
    /\ detailsRequests = EmptyBag
    /\ enquiryRequests = EmptyBag
    /\ lastOp = "selectBillerResume"
    /\ HttpIdle
    /\ DirIdle
    /\ ViewIdle

\* A pre-enquiry in flight settles: the promise of every fetch is resolved
\* or rejected in the end.
EnquirySettles ==
    \E req \in BagToSet(enquiryRequests) : \E res \in EnquiryResponses(req) :
        onSubmitResume(req, res)

\* Steps 2 to 4 of the wizard for the selected biller.
SubmitNext ==
    \/ \E value \in FormInputs :
           FormRendered /\ \E i \in 1..Len(billerDetails.inputParameters) : setFormField(i, value)
    \/ \E now \in Timestamps : onSubmit(now)
    \/ EnquirySettles
    \/ backToEnterDetails
    \/ \E i \in 1..Len(shownPaymentModes) : selectPaymentMode(i)
    \/ proceedToPayment

SpecSubmitFair == SubmitInit /\ [][SubmitNext]_vars /\ WF_vars(EnquirySettles)

\* The two outcomes of a settled pre-enquiry.
EnquirySucceeded(r) ==
    ~r.rejected /\ enquiryData' = r.value /\ alert' = alert

EnquiryFailed(r) ==
    r.rejected /\ alert' # JNull /\ alert'.type = "error" /\ enquiryData' = enquiryData

\* C20: every valid submit is followed by the settling of a pre-enquiry, and
\* a pre-enquiry settles in exactly one of two ways, with loadingEnquiry
\* false after both: enquiryData is the response and the alert is as it was,
\* or an error alert is shown and enquiryData is as it was.
C20_AllOrNothing ==
    /\ (lastOp = "onSubmit" /\ enquiryRequests # EmptyBag) ~> (lastOp = "onSubmitResume")
    /\ [][ lastOp' = "onSubmitResume" =>
             /\ loadingEnquiry' = FALSE
             /\ \E req \in BagToSet(enquiryRequests) : \E res \in EnquiryResponses(req) :
                    LET r == preEnquiryApi(res, req.externalRef)
                    IN  /\ enquiryRequests' = enquiryRequests (-) SetToBag({req})
                        /\ EnquirySucceeded(r) \/ EnquiryFailed(r) ]_vars

\* Both outcomes have happened: a failed pre-enquiry, and a later one whose
\* response is shown.
C20_Witness ==
    /\ lastOp = "onSubmitResume"
    /\ ~loadingEnquiry
    /\ enquiryData # JNull
    /\ alert # JNull /\ alert.type = "error"
    /\ currentStep = 3


(***************************************************************************)
(* Failed fetches of the wizard.                                           *)
(***************************************************************************)
\* The fetch failed: it threw, or the proxy answered with a non-2xx status.
FetchFailed(res) == res.kind = "throw" \/ ~ResOk(res)

ErrorShown == alert' # JNull /\ alert'.type = "error"

\* C21: when the biller-details fetch or the pre-enquiry fetch fails (a failed
\* fetch or a non-2xx answer of the proxy), an error is shown, the wizard is
\* on the step the action was taken from (1 for the details, 2 for the
\* pre-enquiry) and billerDetails and enquiryData are as they were.
C21_FailureStaysOnStep ==
    [][ /\ \A b \in filteredBillers : \A res \in DetailsResponses(b.billerId) :
               (FetchFailed(res) /\ selectBillerResume(b.billerId, res))
                   => (ErrorShown /\ currentStep' = 1
                       /\ UNCHANGED << billerDetails, enquiryData >>)
        /\ \A req \in BagToSet(enquiryRequests) : \A res \in EnquiryResponses(req) :
               (FetchFailed(res) /\ onSubmitResume(req, res))
                   => (ErrorShown /\ currentStep' = 2
                       /\ UNCHANGED << billerDetails, enquiryData >>) ]_vars

\* The pre-enquiry half of C21 alone.
C21_EnquiryFailureReturnsToForm ==
    [][ \A req \in BagToSet(enquiryRequests) : \A res \in EnquiryResponses(req) :
            (FetchFailed(res) /\ onSubmitResume(req, res))
                => (ErrorShown /\ currentStep' = 2
                    /\ UNCHANGED << billerDetails, enquiryData >>) ]_vars

(***************************************************************************)
(* The amount of an EnquiryResponse, in both pages.                        *)
(***************************************************************************)
\* The EnquiryResponse of Home's preEnquiryApi: the amount is taken as it
\* comes.
homeToEnquiryResponse(data, externalRef) ==
    LET e == Or(Prop(data, "data"), data)
    IN  [ enquiryReferenceId |-> Or(Prop(e, "enquiryReferenceId"), JStr(externalRef)),
          amount |-> Nullish(Nullish(Prop(e, "BillAmount"), Prop(e, "amount")), JNum(0)),
          customerName |-> Or(Prop(e, "CustomerName"), Prop(e, "customerName")),
          dueDate |-> Or(Prop(e, "BillDueDate"), Prop(e, "dueDate")) ]

\* preEnquiryApi of Home, from the response of fetch on.
homePreEnquiryApi(res, externalRef) ==
    IF res.kind = "throw"
    THEN Rejected(res.message)
    ELSE IF ~ResOk(res)
    THEN Rejected(JsString(Or(extractErrorStatus(res.body), JStr(sFailedToFetchRechargeDetails))))
    ELSE IF hasErrorStatusCode(res.body) \/ hasErrorStatus(res.body)
    THEN Rejected(JsString(Or(extractErrorStatus(res.body), JStr(sInvalidRequest))))
    ELSE Resolved(homeToEnquiryResponse(res.body, externalRef))

\* Amounts as the upstream service may send them: numbers, formatted and
\* plain numerals, texts that are no numerals, and values of other types.
AmountSamples ==
    { JNum(0), JNum(750), JNum(100000), JDec(FALSE, 1234, <<"5">>), JDec(FALSE, 0, <<"0", "5">>),
      JDec(FALSE, 99, <<"9", "9">>),
      JStr(<<"5", "0", "0">>), JStr(<<"1", ",", "2", "3", "4", ".", "5", "0">>),
      JStr(<<"1", ",", "0", "0", ",", "0", "0", "0">>), JStr(<<" ", "2", "5", "0", " ">>),
      JStr(<<"0", ".", "5">>), JStr(<<"5", "0", "0", " ", "I", "N", "R">>),
      JStr(<<"R", "s", " ", "5", "0", "0">>), JStr(<<"N", "/", "A">>), JStr(<<>>),
      JNull, Undefined, JBool(TRUE) }

\* Where a response may carry the amount.
AmountBodies ==
    { JObj("BillAmount" :> v) : v \in AmountSamples }
        \cup { JObj("data" :> JObj("amount" :> v)) : v \in AmountSamples }
        \cup { JObj(("BillAmount" :> JNull) @@ ("amount" :> v)) : v \in AmountSamples }

AmountInit ==
    /\ WizardInit
    /\ wire \in { HttpResponse(200, body) : body \in AmountBodies }
    /\ endpoint = "pre-enquiry"
    /\ routeRequest = JNull
    /\ upstreamRequest = JNull
    /\ routeResponse = JNull
    /\ clientResult = JNull
    /\ variant \in {"wizard", "home"}
    /\ mounted = "mounted"
    /\ billers = <<>>
    /\ meta = JNull
    /\ pageNumber = JNum(1)
    /\ loadingBillers = FALSE
    /\ initialLoading = TRUE
    /\ billersRequests = {}
    /\ observer = [state |-> "none"]
    /\ rawBiller = JNull
    /\ normalizedBiller = JNull
    /\ ViewIdle

\* preEnquiryApi of the page settles on the response.
enquiryAmount ==
    /\ clientResult = JNull
    /\ clientResult' = IF variant = "wizard"
                       THEN preEnquiryApi(wire, externalRefAt(<<"1", "7">>))
                       ELSE homePreEnquiryApi(wire, externalRefAt(<<"1", "7">>))
    /\ lastOp' = "preEnquiryApi"
    /\ UNCHANGED << wire, endpoint, routeRequest, upstreamRequest, routeResponse,
                    dirVars, viewVars >>
    /\ UNCHANGED << currentStep, selectedBiller, billerDetails, formData, enquiryData,
                    selectedPaymentMode, loadingEnquiry, alert, detailsRequests,
                    enquiryRequests >>

\* Step 3 of the wizard renders the amount: formatINR(enquiryData.amount).
renderAmount ==
    /\ variant = "wizard"
    /\ clientResult # JNull
    /\ ~clientResult.rejected
    /\ amountText = JNull
    /\ amountText' = JStr(formatINR(clientResult.value.amount))
    /\ lastOp' = "formatINR"
    /\ UNCHANGED << statusText, statusTone, amountParsed, httpVars, dirVars >>
    /\ UNCHANGED << currentStep, selectedBiller, billerDetails, formData, enquiryData,
                    selectedPaymentMode, loadingEnquiry, alert, detailsRequests,
                    enquiryRequests >>

\* The rendered amount handed to toNumber again.
reparseAmount ==
    /\ amountText # JNull
    /\ amountParsed = JNull
    /\ amountParsed' = toNumber(amountText)
    /\ lastOp' = "toNumber"
    /\ UNCHANGED << statusText, statusTone, amountText, httpVars, dirVars >>
    /\ UNCHANGED << currentStep, selectedBiller, billerDetails, formData, enquiryData,
                    selectedPaymentMode, loadingEnquiry, alert, detailsRequests,
                    enquiryRequests >>

AmountNext == enquiryAmount \/ renderAmount \/ reparseAmount

SpecAmount == AmountInit /\ [][AmountNext]_vars

\* The amount the response carries: e?.BillAmount ?? e?.amount ?? 0.
UpstreamAmount ==
    LET e == Or(Prop(wire.body, "data"), wire.body)
    IN  Nullish(Nullish(Prop(e, "BillAmount"), Prop(e, "amount")), JNum(0))

\* s is a decimal numeral from end to end: digits, at most one point.
IsNumeral(s) ==
    /\ \E i \in 1..Len(s) : IsDigits(<<s[i]>>)
    /\ \A i \in 1..Len(s) : IsDigits(<<s[i]>>) \/ s[i] = "."
    /\ \A i, j \in 1..Len(s) : (s[i] = "." /\ s[j] = ".") => i = j

\* The value of a numeral.
NumeralValue(s) ==
    LET dot == IF \E i \in 1..Len(s) : s[i] = "."
               THEN CHOOSE i \in 1..Len(s) : s[i] = "."
               ELSE Len(s) + 1
    IN  JDec(FALSE, DigitsValue(SubSeq(s, 1, dot - 1)), SubSeq(s, dot + 1, Len(s)))

\* What the amount of the response is as a number: the number itself, the
\* value of the text without separators and white space, 0 for the rest.
AmountValue(v) ==
    CASE v.t = "number" -> v
      [] v.t = "string" /\ IsNumeral(StripSeparators(v.s)) -> NumeralValue(StripSeparators(v.s))
      [] OTHER -> JNum(0)

EnquirySettled == clientResult # JNull /\ ~clientResult.rejected

\* A non-negative number with at most two decimal places.
TwoDecimalAmount(v) ==
    /\ v.t = "number"
    /\ IF "frac" \in DOMAIN v THEN ~v.neg /\ Len(v.frac) <= 2 ELSE v.n >= 0

\* C22: the amount of every EnquiryResponse is a finite number, the value of
\* the upstream BillAmount/amount without thousands separators and white
\* space, or 0 when that is no number; and the formatted form of a
\* non-negative amount with at most two decimal places parses to that amount.
C22_AmountNumeric ==
    /\ EnquirySettled =>
           /\ clientResult.value.amount.t = "number"
           /\ clientResult.value.amount = AmountValue(UpstreamAmount)
    /\ (amountParsed # JNull /\ TwoDecimalAmount(UpstreamAmount)) => amountParsed = UpstreamAmount

\* C22 for the wizard, with the value of a text that only starts with a
\* numeral left open.
C22_WizardAmountFinite ==
    variant = "wizard" =>
        /\ EnquirySettled =>
               /\ clientResult.value.amount.t = "number"
               /\ (UpstreamAmount.t # "string" \/ IsNumeral(StripSeparators(UpstreamAmount.s))
                       \/ parseFloat(StripSeparators(UpstreamAmount.s)) = NaN)
                      => clientResult.value.amount = AmountValue(UpstreamAmount)
        /\ (amountParsed # JNull /\ TwoDecimalAmount(UpstreamAmount)) => amountParsed = UpstreamAmount

(***************************************************************************)
(* Overlapping submissions: an upstream service that answers by the        *)
(* parameters it is asked about.                                           *)
(***************************************************************************)
sRavi == <<"R", "a", "v", "i">>

\* The customer the upstream service knows for the submitted parameters.
CustomerOf(inputParameters) ==
    IF DOMAIN inputParameters = {} THEN sAsha ELSE sRavi

\* What fetch("/api/bbps/pre-enquiry") may yield for a request when the
\* upstream service answers by its parameters: the route's answer to the
\* upstream record or to an upstream failure.
EnquiryResponsesByParameters(req) ==
    { PreEnquiryPOST(enquiryRequestBody(req), up) :
        up \in { HttpResponse(200, JObj("data" :> JObj("CustomerName" :>
                                        JStr(CustomerOf(req.inputParameters))))),
                 HttpResponse(500, JObj("message" :> JStr(<<"d", "o", "w", "n">>))) } }

\* Steps 2 to 4 of the wizard for the selected biller, with that service.
ResubmitNext ==
    \/ \E value \in FormInputs :
           FormRendered /\ \E i \in 1..Len(billerDetails.inputParameters) : setFormField(i, value)
    \/ \E now \in Timestamps : onSubmit(now)
    \/ \E req \in BagToSet(enquiryRequests) : \E res \in EnquiryResponsesByParameters(req) :
           onSubmitResume(req, res)
    \/ backToEnterDetails
    \/ \E i \in 1..Len(shownPaymentModes) : selectPaymentMode(i)
    \/ proceedToPayment

SpecResubmit == SubmitInit /\ [][ResubmitNext]_vars

\* The wizard shows a pre-enquiry result as the current one.
EnquiryShownAsCurrent == currentStep \in {3, 4} /\ ~loadingEnquiry /\ enquiryData # JNull

\* C23: whenever the wizard shows a pre-enquiry result as current, it is the
\* response to the most recent submission, the one for the parameters now in
\* the form (the form cannot change on steps 3 and 4).
C23_ResultOfLatestSubmission ==
    EnquiryShownAsCurrent => enquiryData.customerName = JStr(CustomerOf(formData))

(***************************************************************************)
(* Whose details and whose payment modes the wizard shows.                 *)
(***************************************************************************)
\* The details a fetch for biller b may resolve to.
DetailsFetchedFor(b) ==
    { fetchBillerDetailsApi(res).value :
        res \in { r \in DetailsResponses(b.billerId) : ~fetchBillerDetailsApi(r).rejected } }

\* C24: whenever the wizard shows billerDetails (step 2 and later), they are
\* details fetched for the selected biller.
C24_DetailsOfSelectedBiller ==
    (currentStep >= 2 /\ billerDetails # JNull /\ selectedBiller # JNull)
        => billerDetails \in DetailsFetchedFor(selectedBiller)


\* C25: while a pre-enquiry request of the wizard is in flight,
\* loadingEnquiry is true, and the wizard is not at step 4 before every
\* outstanding pre-enquiry has completed.
C25_LoadingWhileInFlight ==
    /\ enquiryRequests # EmptyBag => loadingEnquiry
    /\ currentStep = 4 => enquiryRequests = EmptyBag


\* C26: no illegal wizard state is reachable: from step 2 on a biller is
\* selected and its details are loaded; step 3 without the loading view has
\* an enquiry to show; step 4 has an enquiry.
C26_NoIllegalState ==
    /\ currentStep >= 2 => (selectedBiller # JNull /\ billerDetails # JNull)
    /\ (currentStep = 3 /\ ~loadingEnquiry) => enquiryData # JNull
    /\ currentStep = 4 => enquiryData # JNull

\* A pre-enquiry has failed with no enquiry stored: the wizard is back on
\* the form.
C26_Witness ==
    /\ lastOp = "onSubmitResume"
    /\ enquiryData = JNull
    /\ ~loadingEnquiry
    /\ alert # JNull /\ alert.type = "error"
    /\ currentStep = 2


\* C27: at step 4 the selected payment mode is one of the payment modes of
\* the loaded biller details.
C27_ModeOfLoadedBiller ==
    currentStep = 4 =>
        \E i \in 1..Len(billerDetails.paymentModes) :
            selectedPaymentMode = JStr(billerDetails.paymentModes[i])


\* C28: error alerts are transient: right after a biller-details fetch has
\* succeeded and brought the wizard to step 2, and right after a pre-enquiry
\* has succeeded and its result is shown at step 3, no error alert is
\* displayed.
C28_ErrorsClearedBySuccess ==
    [][ /\ \A b \in filteredBillers : \A res \in DetailsResponses(b.billerId) :
               (selectBillerResume(b.billerId, res) /\ ~fetchBillerDetailsApi(res).rejected)
                   => ~ErrorShown
        /\ \A req \in BagToSet(enquiryRequests) : \A res \in EnquiryResponses(req) :
               (onSubmitResume(req, res) /\ ~preEnquiryApi(res, req.externalRef).rejected
                    /\ currentStep' = 3)
                   => ~ErrorShown ]_vars

\* The biller-details half of C28 alone.
C28_ErrorsClearedByDetails ==
    [][ \A b \in filteredBillers : \A res \in DetailsResponses(b.billerId) :
            (selectBillerResume(b.billerId, res) /\ ~fetchBillerDetailsApi(res).rejected)
                => ~ErrorShown ]_vars

(***************************************************************************)
(* The tone of the status badge.                                           *)
(***************************************************************************)
\* The alternatives of the three patterns of statusTone.
successPattern == << <<"s", "u", "c", "c", "e", "s", "s">>, <<"a", "c", "t", "i", "v", "e">>, <<"o", "k">>, <<"l", "o", "w", " ", "b", "a", "l", "a", "n", "c", "e">>, <<"v", "a", "l", "i", "d">> >>

pendingPattern == << <<"p", "e", "n", "d", "i", "n", "g">>, <<"p", "r", "o", "c", "e", "s", "s", "i", "n", "g">> >>

errorPattern == << <<"b", "l", "o", "c", "k">>, <<"i", "n", "a", "c", "t", "i", "v", "e">>, <<"i", "n", "v", "a", "l", "i", "d">>, <<"e", "r", "r", "o", "r">>, <<"f", "a", "i", "l">>, <<"e", "x", "p", "i", "r", "e", "d">> >>

\* statusTone of the wizard page for the status text.
classifyStatus(text) ==
    IF RegexTestIgnoreCase(successPattern, text) THEN "success"
    ELSE IF RegexTestIgnoreCase(pendingPattern, text) THEN "pending"
    ELSE IF RegexTestIgnoreCase(errorPattern, text) THEN "error"
    ELSE "info"

\* Status texts: the words of the patterns and two others, in lower and in
\* upper case, alone, after "Tag " and before "ed".
StatusWords ==
    LET words == { successPattern[i] : i \in 1..Len(successPattern) }
                     \cup { pendingPattern[i] : i \in 1..Len(pendingPattern) }
                     \cup { errorPattern[i] : i \in 1..Len(errorPattern) }
                     \cup { <<"u", "n", "k", "n", "o", "w", "n">>, <<"n", "/", "a">> }
    IN  words \cup { ToUpperCase(w) : w \in words }

StatusTextSamples ==
    { <<>> } \cup
    { pre \o w \o post : pre \in { <<>>, <<"T", "a", "g", " ">> }, w \in StatusWords, post \in { <<>>, <<"e", "d">> } }

ToneInit ==
    /\ WizardInit
    /\ HttpIdle
    /\ DirIdle
    /\ statusText \in StatusTextSamples
    /\ statusTone = JNull
    /\ amountText = JNull
    /\ amountParsed = JNull

\* The render of the page computes the tone of the status text.
renderStatusTone ==
    /\ statusTone = JNull
    /\ statusTone' = JStr(classifyStatus(statusText))
    /\ lastOp' = "statusTone"
    /\ UNCHANGED << statusText, amountText, amountParsed, httpVars, dirVars >>
    /\ UNCHANGED << currentStep, selectedBiller, billerDetails, formData, enquiryData,
                    selectedPaymentMode, loadingEnquiry, alert, detailsRequests,
                    enquiryRequests >>

ToneNext == renderStatusTone

SpecTone == ToneInit /\ [][ToneNext]_vars

Tones == { "success", "pending", "error", "info" }

HasKeyword(pattern, text) ==
    \E i \in 1..Len(pattern) : ContainsIgnoreCase(text, pattern[i])

\* C29: the tone of every status text is one of success, pending, error and
\* info, and a text that contains an error keyword and no pending keyword
\* has the tone error.
C29_ErrorKeywordsGiveErrorTone ==
    statusTone # JNull =>
        /\ \E tone \in Tones : statusTone = JStr(tone)
        /\ (HasKeyword(errorPattern, statusText) /\ ~HasKeyword(pendingPattern, statusText))
               => statusTone = JStr("error")

\* The first half of C29 alone: the tone is one of the four.
C29_ToneIsOneOfFour ==
    statusTone # JNull => \E tone \in Tones : statusTone = JStr(tone)

(***************************************************************************)
(* The range of the requested page.                                        *)
(***************************************************************************)
\* The requests that a step starts: the runs of the billers effect that are
\* in flight after it and were not before.
StartedRequests == { r \in billersRequests' \ billersRequests : ~r.abort }

\* C30: pageNumber is at least 1 in both pages, and once meta is known no
\* page greater than meta.totalPages is requested, whatever the order of
\* Previous/Next clicks, sentinel intersections and arriving responses.
C30_PageNumberInRange ==
    [][ /\ JsGE(pageNumber', JNum(1))
        /\ \A r \in StartedRequests :
               meta # JNull => JsGE(meta.totalPages, r.pageNumber) ]_vars

\* The first half of C30 alone.
C30_PageNumberAtLeastOne == JsGE(pageNumber, JNum(1))

\* Next and the sentinel alone never pass meta.totalPages.
C30_ForwardInRange ==
    [][ lastOp' \in {"nextPage", "sentinelIntersects"} =>
            \A r \in StartedRequests :
                meta # JNull => JsGE(meta.totalPages, r.pageNumber) ]_vars

=============================================================================
